---- MODULE Spec2Model ----
(***************************************************************************)
(* Model of the media catalog of serve-mp4 (package main of cmd/serve-mp4  *)
(* and package vid): the Directory tree, catalog.addFile, the enumeration  *)
(* walk with its mark and sweep, the cache path mapping and Entry.Info,    *)
(* the transcoding queue with its worker, Entry.Percent, and the crawler:  *)
(* the watched directories, the debounce loop of handleRefresh and the     *)
(* preload of the metadata.                                                *)
(*                                                                         *)
(* Strings are sequences of tokens.  A token stands for a run of bytes     *)
(* that holds neither '/' nor '.', or for one of these two bytes, so that  *)
(* the byte-level scans of the source (IndexByte, LastIndexByte, Ext)      *)
(* are scans over tokens.  Indexes are 1-based here, 0 meaning "not        *)
(* found" where Go returns -1.                                             *)
(* Pointers to Entry are identifiers into the heap "entries"; the nil      *)
(* pointer is NilEntry.  A nil *Directory is NilDir.                       *)
(***************************************************************************)
EXTENDS Integers, Sequences, FiniteSets, TLC

VARIABLES
  tree,           \* catalog.tree
  entries,        \* heap of Entry objects, by identifier
  nextId,         \* identifier of the next Entry allocated by addFile
  updatingInfos,  \* catalog.updatingInfos
  disk,           \* files under rootDir (relative paths)
  cacheFiles,     \* non-empty files under cacheDir (relative paths)
  pc,             \* position of catalog.enumerateEntries
  stack,          \* paths filepath.Walk still has to visit, next one first
  dirs,           \* the slice dirs of catalog.enumerateEntries
  found,          \* the counter found of catalog.enumerateEntries
  werr,           \* whether filepath.Walk returned an error
  enumCount,      \* number of enumerations started
  observed,       \* history: rels handed to addFile by the current walk
  created,        \* history: number of addFile calls that made a new Entry
  removed,        \* history: number of cold Entries handed to the sweep
  swept,          \* history: rels of the Entries cold at the last sweep
  stable,         \* history: disk unchanged since the enumeration began
  firstAdd,       \* history: rel -> Entry in the tree after the first addFile(rel)
  addCalls,       \* history: rel -> number of direct addFile(rel) calls
  lq,             \* argument of the lookup call
  lop,            \* which lookup or Directory method is under way
  ldir,           \* result of catalog.LookupDir
  lentry,         \* result of catalog.LookupEntry
  snap,           \* the Directory a caller of catalog.LookupDir keeps
  pa, pb,         \* two (rel, device) arguments of toCachedPath
  ca, cb,         \* the two results of toCachedPath
  probe,          \* the output of ffprobe for a file, and the preferred language
  ident,          \* vid.Identify called on it, and the calls made with its result
  lockAt,         \* per thread: the lock operation it is to do next
  ipc,            \* per thread: position inside Entry.Info
  emu,            \* per Entry: holder of Entry.mu
  iret,           \* per thread: value returned by its last Entry.Info call
  probes,         \* per Entry: number of vid.Identify invocations
  watchedDirs,    \* crawler.watchedDirs
  watcher,        \* the directories the fsnotify watcher holds
  lastUpdate,     \* crawler.lastUpdate, as the count of the updates so far
  queue,          \* transcodingQueue.queue: the requests buffered
  tmu,            \* holder of transcodingQueue.mu
  wpc,            \* position of transcodingQueue.run
  wreq,           \* the request r of transcodingQueue.run
  wres,           \* the locals i and err of transcodingQueue.run
  qclose,         \* position of transcodingQueue.Close
  hreq,           \* per HTTP handler: position inside doTranscode
  tickets,        \* history: number of Transcode calls so far
  encoded,        \* history: (Entry, device) pairs the encoder succeeded for
  late,           \* history: requests whose encoder started after Close returned
  inflight,       \* history: requests in the encoder when Close was called
  pct,            \* the last Percent call and what it returned
  refresh,        \* crawler.refresh: number of signals buffered
  events,         \* watcher.Events: the events not yet received
  rpc,            \* position of crawler.handleRefresh
  delay,          \* the channel delay of crawler.handleRefresh
  gone,           \* history: files removed with a non-write event emitted
  wf,             \* crawler.WatchFiles: its position, its local err, its result
  wenv,           \* the executable, watcher.Errors and interrupt.Channel
  workers,        \* per stamp: the goroutine preloadInfos(stamp)
  crawlerUpdatingInfos  \* crawler.updatingInfos

vars == <<tree, entries, nextId, updatingInfos, disk, cacheFiles, pc, stack,
          dirs, found, werr, enumCount, observed, created, removed, swept,
          stable, firstAdd, addCalls, lq, lop, ldir, lentry, snap, pa, pb, ca,
          cb, probe, ident, lockAt,
          ipc, emu, iret, probes, watchedDirs, watcher, lastUpdate, queue,
          tmu, wpc, wreq, wres, qclose, hreq, tickets, encoded, late,
          inflight, pct, refresh, events, rpc, delay, gone, wf, wenv, workers,
          crawlerUpdatingInfos>>

catalogVars == <<tree, entries, nextId, updatingInfos>>
walkVars == <<pc, stack, dirs, found, werr, enumCount, observed, removed,
              swept, stable>>
lookupVars == <<lq, lop, ldir, lentry, snap>>
pathVars == <<pa, pb, ca, cb>>
identVars == <<probe, ident>>
lockVars == <<lockAt>>
infoVars == <<ipc, emu, iret, probes>>
crawlVars == <<watchedDirs, watcher, lastUpdate>>
queueVars == <<queue, tmu, wpc, wreq, wres, qclose, hreq, tickets, encoded,
               late, inflight, pct>>
refreshVars == <<refresh, events, rpc, delay, gone, wf, wenv>>
preloadVars == <<workers, crawlerUpdatingInfos>>
serviceVars == <<crawlVars, queueVars, refreshVars, preloadVars>>

-----------------------------------------------------------------------------
(* Bounds *)

MaxLen == 5       \* longest lookup argument, in tokens
MaxEnum == 2      \* enumerations per behaviour
MaxAddCalls == 4  \* direct addFile calls per behaviour
MaxInfoCalls == 2 \* Entry.Info calls per thread
MaxRequests == 2  \* Transcode calls per behaviour
MaxFrame == 1     \* highest frame number the encoder reports
MaxSignals == 3   \* file system events per behaviour
MaxStamps == 2    \* updates of crawler.lastUpdate per behaviour

-----------------------------------------------------------------------------
(* Strings *)

Slash == "/"
Dot == "."
Separator == Slash  \* filepath.Separator of the build (unix)

NilEntry == 0
NilDir == [Nil |-> TRUE]
NilInfo == 0
NilErr == 0

\* byte order of the tokens
Rank(t) ==
  CASE t = "." -> 1
    [] t = "/" -> 2
    [] t = "a" -> 3
    [] t = "b" -> 4
    [] t = "c" -> 5
    [] t = "d" -> 6
    [] t = "e" -> 7
    [] t = "g" -> 8
    [] t = "h" -> 9
    [] t = "mkv" -> 10
    [] t = "mp4" -> 11
    [] t = "txt" -> 12
    [] OTHER -> 13

\* strings.IndexByte, 1-based, 0 when absent
IndexByte(s, c) ==
  IF \E i \in 1..Len(s) : s[i] = c
  THEN CHOOSE i \in 1..Len(s) : s[i] = c /\ \A j \in 1..(i-1) : s[j] # c
  ELSE 0

\* strings.LastIndexByte, 1-based, 0 when absent
LastIndexByte(s, c) ==
  IF \E i \in 1..Len(s) : s[i] = c
  THEN CHOOSE i \in 1..Len(s) : s[i] = c /\ \A j \in (i+1)..Len(s) : s[j] # c
  ELSE 0

\* strings.Replace(s, old, new, -1) for one-byte old and new
Replace(s, old, new) == [i \in 1..Len(s) |-> IF s[i] = old THEN new ELSE s[i]]

\* strings.SplitN(s, "/", 2)
SplitN2(s) ==
  LET i == IndexByte(s, Slash)
  IN IF i = 0 THEN <<s>> ELSE <<SubSeq(s, 1, i-1), SubSeq(s, i+1, Len(s))>>

\* filepath.Base of a clean relative path
Base(p) == SubSeq(p, LastIndexByte(p, Slash) + 1, Len(p))

\* the directory part of a clean relative path ("" for a top-level name)
Dir(p) ==
  LET i == LastIndexByte(p, Slash) IN IF i = 0 THEN <<>> ELSE SubSeq(p, 1, i-1)

\* filepath.Ext: the suffix beginning at the final dot of the last element
Ext(p) ==
  LET b == Base(p)
      i == LastIndexByte(b, Dot)
  IN IF i = 0 THEN <<>> ELSE SubSeq(b, i, Len(b))

\* filepath.Join of a non-empty clean a and a clean relative b
Join(a, b) == IF b = <<>> THEN a ELSE a \o <<Slash>> \o b

validExt == { <<Dot, "avi">>, <<Dot, "m4v">>, <<Dot, "mkv">>, <<Dot, "mp4">>,
              <<Dot, "mpeg">>, <<Dot, "mpg">>, <<Dot, "mov">>, <<Dot, "wmv">> }

isValidExt(ext) == ext \in validExt

-----------------------------------------------------------------------------
(* Directory *)

EmptyMap == <<>>
EmptyDir == [Items |-> EmptyMap, Subdirs |-> EmptyMap]

Range(f) == { f[k] : k \in DOMAIN f }

\* Go map read: the zero value when the key is absent
MapGet(m, k, zero) == IF k \in DOMAIN m THEN m[k] ELSE zero

RECURSIVE SumOver(_, _)
SumOver(f, S) ==
  IF S = {} THEN 0
  ELSE LET k == CHOOSE k \in S : TRUE IN f[k] + SumOver(f, S \ {k})

RECURSIVE TotalItems(_)
TotalItems(d) ==
  Cardinality(DOMAIN d.Items)
  + SumOver([n \in DOMAIN d.Subdirs |-> TotalItems(d.Subdirs[n])], DOMAIN d.Subdirs)

RECURSIVE lookupDir_noEmpty(_, _)
lookupDir_noEmpty(d, dir) ==
  LET i == IndexByte(dir, Slash)
  IN IF i = 0 THEN MapGet(d.Subdirs, dir, NilDir)
     ELSE LET s == MapGet(d.Subdirs, SubSeq(dir, 1, i-1), NilDir)
          IN IF s = NilDir THEN NilDir
             ELSE lookupDir_noEmpty(s, SubSeq(dir, i+1, Len(dir)))

RECURSIVE lookupDir(_, _)
lookupDir(d, dir) ==
  IF dir = <<>> THEN d
  ELSE LET i == IndexByte(dir, Slash)
       IN IF i = 0 THEN MapGet(d.Subdirs, dir, NilDir)
          ELSE LET s == MapGet(d.Subdirs, SubSeq(dir, 1, i-1), NilDir)
               IN IF s = NilDir THEN NilDir
                  ELSE lookupDir(s, SubSeq(dir, i+1, Len(dir)))

lookupEntry(d, rel) ==
  LET i == LastIndexByte(rel, Slash)
  IN IF i = 0 THEN MapGet(d.Items, rel, NilEntry)
     ELSE IF i = 1 THEN NilEntry
     ELSE LET s == lookupDir(d, SubSeq(rel, 1, i-1))
          IN IF s = NilDir THEN NilEntry
             ELSE MapGet(s.Items, SubSeq(rel, i+1, Len(rel)), NilEntry)

\* catalog.LookupDir: the Directory found, copied map by map
LookupDir(t, rel) ==
  LET d == lookupDir(t, rel)
  IN IF d = NilDir THEN NilDir
     ELSE [Items |-> [k \in DOMAIN d.Items |-> d.Items[k]],
           Subdirs |-> [k \in DOMAIN d.Subdirs |-> d.Subdirs[k]]]

LookupEntry(t, rel) == lookupEntry(t, rel)

-----------------------------------------------------------------------------
(* Devices and the cache path mapping *)

ChromeCast == 1
ChromeCastUltra == 2
ChromeOS == 3
Devices == {ChromeCast, ChromeCastUltra, ChromeOS}

deviceName == <<"ChromeCast", "ChromeCastUltra", "ChromeOS">>

\* Device.String
String(i) ==
  IF i - 1 < 0 \/ i - 1 >= Len(deviceName) THEN <<"Device(?)">>
  ELSE <<deviceName[i]>>

\* Device.ToContainer
ToContainer(d) == <<"mp4">>

toCachedPath(rel, v) ==
  LET path == Join(String(v), rel)
      ext == Ext(path)
  IN SubSeq(path, 1, Len(path) - Len(ext)) \o <<Dot>> \o ToContainer(v)

\* Entry.Path
Path(rel, v) == SubSeq(rel, 1, Len(rel) - Len(Ext(rel)) + 1) \o ToContainer(v)

-----------------------------------------------------------------------------
(* catalog.addFile, Directory.resetCold, Directory.trimCold *)

\* the Entry literal of addFile and the probe of the cache directory
NewEntry(rel, cache) ==
  [Rel |-> rel, info |-> NilInfo, err |-> NilErr,
   cached |-> { v \in {ChromeCast, ChromeOS} : toCachedPath(rel, v) \in cache },
   transcoding |-> FALSE, frame |-> 0, cold |-> FALSE]

\* the loop of addFile: the Entry found at the end of the descent, if any
RECURSIVE addFileFind(_, _)
addFileFind(d, rest) ==
  LET parts == SplitN2(rest)
  IN IF Len(parts) = 1 THEN MapGet(d.Items, parts[1], NilEntry)
     ELSE IF parts[1] \in DOMAIN d.Subdirs
          THEN addFileFind(d.Subdirs[parts[1]], parts[2])
          ELSE NilEntry

\* the loop of addFile: missing directories made on the way down, and the
\* new Entry stored under its base name
RECURSIVE addFileInsert(_, _, _)
addFileInsert(d, rest, e) ==
  LET parts == SplitN2(rest)
  IN IF Len(parts) = 1
     THEN [d EXCEPT !.Items = (parts[1] :> e) @@ d.Items]
     ELSE LET s == MapGet(d.Subdirs, parts[1], EmptyDir)
          IN [d EXCEPT !.Subdirs =
                (parts[1] :> addFileInsert(s, parts[2], e)) @@ d.Subdirs]

\* variant: an Entry already present is rebuilt
addFile_rebuild(t, es, nid, rel, cache) ==
  LET nrel == Replace(rel, Separator, Slash)
  IN [tree |-> addFileInsert(t, nrel, nid),
      entries |-> (nid :> NewEntry(rel, cache)) @@ es,
      nextId |-> nid + 1]

\* variant: an Entry already present is left cold
addFile_keepCold(t, es, nid, rel, cache) ==
  LET nrel == Replace(rel, Separator, Slash)
      e == addFileFind(t, nrel)
  IN IF e # NilEntry
     THEN [tree |-> t, entries |-> es, nextId |-> nid]
     ELSE [tree |-> addFileInsert(t, nrel, nid),
           entries |-> (nid :> NewEntry(rel, cache)) @@ es,
           nextId |-> nid + 1]

addFile(t, es, nid, rel, cache) ==
  LET nrel == Replace(rel, Separator, Slash)
      e == addFileFind(t, nrel)
  IN IF e # NilEntry
     THEN [tree |-> t, entries |-> [es EXCEPT ![e].cold = FALSE], nextId |-> nid]
     ELSE [tree |-> addFileInsert(t, nrel, nid),
           entries |-> (nid :> NewEntry(rel, cache)) @@ es,
           nextId |-> nid + 1]

\* the Entry pointers held by the maps of a subtree
RECURSIVE EntriesOf(_)
EntriesOf(d) ==
  Range(d.Items) \cup UNION { EntriesOf(d.Subdirs[n]) : n \in DOMAIN d.Subdirs }

\* variant: only the Entries of the receiver are marked
resetCold_shallow(d, es) ==
  [i \in DOMAIN es |->
     IF i \in Range(d.Items) THEN [es[i] EXCEPT !.cold = TRUE] ELSE es[i]]

resetCold(d, es) ==
  [i \in DOMAIN es |->
     IF i \in EntriesOf(d) THEN [es[i] EXCEPT !.cold = TRUE] ELSE es[i]]

\* variant: a sub-directory is dropped as soon as it holds no Entry itself
RECURSIVE trimCold_itemsOnly(_, _)
trimCold_itemsOnly(d, es) ==
  LET items == [n \in { n \in DOMAIN d.Items : ~es[d.Items[n]].cold } |-> d.Items[n]]
      subs == [n \in DOMAIN d.Subdirs |-> trimCold_itemsOnly(d.Subdirs[n], es)]
      keep == { n \in DOMAIN subs : ~(DOMAIN subs[n].Items = {}) }
  IN [Items |-> items, Subdirs |-> [n \in keep |-> subs[n]]]

\* variant: emptied sub-directories are kept
RECURSIVE trimCold_noPrune(_, _)
trimCold_noPrune(d, es) ==
  LET items == [n \in { n \in DOMAIN d.Items : ~es[d.Items[n]].cold } |-> d.Items[n]]
      subs == [n \in DOMAIN d.Subdirs |-> trimCold_noPrune(d.Subdirs[n], es)]
  IN [Items |-> items, Subdirs |-> subs]

RECURSIVE trimCold(_, _)
trimCold(d, es) ==
  LET items == [n \in { n \in DOMAIN d.Items : ~es[d.Items[n]].cold } |-> d.Items[n]]
      subs == [n \in DOMAIN d.Subdirs |-> trimCold(d.Subdirs[n], es)]
      keep == { n \in DOMAIN subs :
                  ~(DOMAIN subs[n].Items = {} /\ DOMAIN subs[n].Subdirs = {}) }
  IN [Items |-> items, Subdirs |-> [n \in keep |-> subs[n]]]

-----------------------------------------------------------------------------
(* The files the file system may hold, and filepath.Walk over them *)

FileC == <<"a", "/", "b", "/", "c", ".", "mp4">>
FileD == <<"a", "/", "d", ".", "mkv">>
FileE == <<"a", "/", ".", "e", ".", "mp4">>   \* hidden file
FileH == <<".", "h", "/", "c", ".", "mp4">>   \* file of a hidden directory
FileG == <<"g", ".", "txt">>                  \* not a video
Files == {FileC, FileD, FileE, FileH, FileG}

CachePaths == {toCachedPath(FileD, ChromeCast)}

\* rel names the directory p or something below it ("" is the root)
Under(p, f) ==
  IF p = <<>> THEN TRUE
  ELSE /\ Len(f) > Len(p) + 1
       /\ SubSeq(f, 1, Len(p)) = p
       /\ f[Len(p) + 1] = Slash

\* os.Lstat of the path p relative to the root
lstat(dk, p) ==
  IF p = <<>> THEN "dir"
  ELSE IF p \in dk THEN "file"
  ELSE IF \E f \in dk : Under(p, f) THEN "dir"
  ELSE "none"

RECURSIVE LessName(_, _)
LessName(a, b) ==
  IF a = <<>> THEN b # <<>>
  ELSE IF b = <<>> THEN FALSE
  ELSE IF a[1] = b[1] THEN LessName(Tail(a), Tail(b))
  ELSE Rank(a[1]) < Rank(b[1])

RECURSIVE SortNames(_)
SortNames(S) ==
  IF S = {} THEN <<>>
  ELSE LET m == CHOOSE m \in S : \A n \in S \ {m} : LessName(m, n)
       IN <<m>> \o SortNames(S \ {m})

\* readDirNames of filepath.Walk: the names in the directory p, sorted
readDirNames(dk, p) ==
  SortNames({ SplitN2(IF p = <<>> THEN f ELSE SubSeq(f, Len(p) + 2, Len(f)))[1] :
                f \in { g \in dk : Under(p, g) } })

\* the paths of the children of p, in the order Walk visits them
Children(dk, p) ==
  LET names == readDirNames(dk, p)
  IN [i \in 1..Len(names) |-> IF p = <<>> THEN names[i] ELSE Join(p, names[i])]

\* variant: names beginning with a dot are walked like the others
walkFn_noHidden(rel, st) ==
  IF st = "none" THEN "err"
  ELSE IF rel = <<>> THEN "root"
  ELSE IF st = "dir" THEN "dir"
  ELSE IF ~isValidExt(Ext(rel)) THEN "nil"
  ELSE "addFile"

\* The callback handed to filepath.Walk, by the branch it takes.  rel is
\* path[prefix:]; len(path) < prefix holds for the root only.
walkFn(rel, st) ==
  IF st = "none" THEN "err"
  ELSE IF rel = <<>> THEN "root"
  ELSE IF Base(rel)[1] = Dot THEN "SkipDir"
  ELSE IF st = "dir" THEN "dir"
  ELSE IF ~isValidExt(Ext(rel)) THEN "nil"
  ELSE "addFile"

\* The paths left to walk after the callback returned r for the path p:
\* a directory's children come before what was pending; SkipDir from a file
\* ends the walk of the directory holding it.
walkRest(dk, p, st, r, rest) ==
  CASE r = "err" -> <<>>
    [] r \in {"root", "dir"} -> Children(dk, p) \o rest
    [] r = "SkipDir" ->
         IF st = "dir" THEN rest
         ELSE SelectSeq(rest, LAMBDA x : Dir(x) # Dir(p))
    [] OTHER -> rest

-----------------------------------------------------------------------------
(* The watched directories of the crawler *)

\* catalog.rootDir
rootDir == <<Slash, "srv">>

\* a <= b in the order of Go's strings
LessEq(a, b) == a = b \/ LessName(a, b)

\* the element of a set of one element
Only(S) == CHOOSE x \in S : TRUE

\* the least string of s, by its first position
least(s) ==
  CHOOSE i \in 1..Len(s) :
    /\ \A k \in 1..Len(s) : LessEq(s[i], s[k])
    /\ \A k \in 1..(i - 1) : s[k] # s[i]

\* sort.Strings
RECURSIVE SortStrings(_)
SortStrings(s) ==
  IF s = <<>> THEN <<>>
  ELSE Only({ <<s[m]>> \o SortStrings(SubSeq(s, 1, m - 1) \o SubSeq(s, m + 1, Len(s))) :
                m \in {least(s)} })

\* the binary search of sort.Search over [i, j), for f(h) = a[h] >= x;
\* indexes as in Go, from 0
RECURSIVE search(_, _, _, _)
search(a, x, i, j) ==
  IF i >= j THEN i
  ELSE Only({ IF ~LessEq(x, a[h + 1]) THEN search(a, x, h + 1, j)
              ELSE search(a, x, i, h) : h \in {(i + j) \div 2} })

\* sort.SearchStrings, the index from 0
SearchStrings(a, x) == search(a, x, 0, Len(a))

\* one round of the first loop of crawler.enumerateEntries, for the tracked
\* directory d at i with j = sort.SearchStrings(dirs, d): a directory with
\* dirs[j] != d is blanked and unwatched.  dirs[j] panics when j is
\* len(dirs).
unwatch(st, ds, i, d, j) ==
  IF j >= Len(ds) THEN [st EXCEPT !.panic = TRUE]
  ELSE IF ds[j + 1] # d
  THEN [st EXCEPT !.watchedDirs[i] = <<>>, !.watcher = @ \ {d}]
  ELSE st

\* the first loop of crawler.enumerateEntries, from the i-th tracked
\* directory on
RECURSIVE unwatchLoop(_, _, _)
unwatchLoop(st, ds, i) ==
  IF st.panic \/ i > Len(st.watchedDirs) THEN st
  ELSE Only({ unwatchLoop(n, ds, i + 1) :
                n \in { unwatch(st, ds, i, st.watchedDirs[i],
                                SearchStrings(ds, st.watchedDirs[i])) } })

\* sort.Strings(c.watchedDirs), the count i of the leading empty strings and
\* copy(c.watchedDirs, c.watchedDirs[i:]), which leaves the length as it is
compact(wd) ==
  LET s == SortStrings(wd)
      n == Len(s)
      i == Cardinality({ k \in 1..n : s[k] = <<>> })
  IN IF i = 0 THEN s ELSE SubSeq(s, i + 1, n) \o SubSeq(s, n - i + 1, n)

\* one round of the second loop of crawler.enumerateEntries, for the
\* enumerated directory d with j = sort.SearchStrings(c.watchedDirs, d): j is
\* searched in c.watchedDirs and compared in dirs
watch(st, ds, d, j) ==
  IF j >= Len(ds) THEN [st EXCEPT !.panic = TRUE]
  ELSE IF ds[j + 1] # d
  THEN [st EXCEPT !.watchedDirs = SortStrings(Append(@, d)),
                  !.watcher = @ \cup {d}]
  ELSE st

\* the second loop of crawler.enumerateEntries, from the k-th enumerated
\* directory on
RECURSIVE watchLoop(_, _, _)
watchLoop(st, ds, k) ==
  IF st.panic \/ k > Len(ds) THEN st
  ELSE Only({ watchLoop(n, ds, k + 1) :
                n \in { watch(st, ds, ds[k], SearchStrings(st.watchedDirs, ds[k])) } })

\* sort.Strings(dirs) and dirs[i] = filepath.Join(c.c.rootDir, dirs[i])
absDirs(rels) ==
  Only({ [i \in 1..Len(sorted) |-> Join(rootDir, sorted[i])] :
           sorted \in {SortStrings(rels)} })

\* crawler.enumerateEntries after c.c.enumerateEntries() returned rels, up to
\* the end of the two loops: the tracked list, the watcher, and whether an
\* index was out of range
reconcile(wd, w, rels) ==
  Only({ Only({ IF u.panic THEN u
                ELSE watchLoop([u EXCEPT !.watchedDirs = compact(@)], ds, 1) :
                  u \in { unwatchLoop([watchedDirs |-> wd, watcher |-> w,
                                       panic |-> FALSE], ds, 1) } }) :
           ds \in {absDirs(rels)} })

-----------------------------------------------------------------------------
(* Actions of the enumeration *)

\* the path a result of LookupDir carries when its maps are maps of its own
NoShare == <<Slash, Slash>>
NoSnap == [d |-> NilDir, shares |-> NoShare]

NoLookup ==
  /\ lq = <<>> /\ lop = "none" /\ ldir = NilDir /\ lentry = NilEntry
  /\ snap = NoSnap
NoLocks == lockAt = <<>>

\* the nil *vid.Info
NilInfoRec == [Nil |-> TRUE]
NoIdentify ==
  /\ probe = [Streams |-> <<>>, lang |-> ""]
  /\ ident = [at |-> "none", info |-> NilInfoRec, err |-> NilErr,
              ret |-> <<>>, fault |-> FALSE]
NoPath == /\ pa = <<>> /\ pb = <<>> /\ ca = <<>> /\ cb = <<>>
NoInfo == /\ ipc = <<>> /\ emu = <<>> /\ iret = <<>> /\ probes = <<>>
NoWalk ==
  /\ pc = "idle" /\ stack = <<>> /\ dirs = <<>> /\ found = 0 /\ werr = FALSE
  /\ enumCount = 0 /\ observed = {} /\ removed = 0 /\ swept = {}
  /\ stable = TRUE
NoAdd == /\ firstAdd = EmptyMap /\ addCalls = EmptyMap

\* a transcodingRequest; the nil request is NilReq.  The fields n and b are
\* history and no fields of the source: n numbers the Transcode calls and b
\* holds the calls that had returned when this one began.
NilReq == [v |-> 0, e |-> NilEntry, n |-> 0, b |-> {}]

\* the crawler as NewCrawler makes it, before its first enumeration
NoCrawl == /\ watchedDirs = <<>> /\ watcher = {} /\ lastUpdate = 0
NoQueue ==
  /\ queue = <<>> /\ tmu = "free" /\ wpc = "none" /\ wreq = NilReq
  /\ wres = [i |-> NilInfo, err |-> NilErr] /\ qclose = "none"
  /\ hreq = <<>> /\ tickets = 0 /\ encoded = {} /\ late = {}
  /\ inflight = {} /\ pct = [e |-> NilEntry]
NoRefresh ==
  /\ refresh = 0 /\ events = <<>> /\ rpc = "none" /\ delay = "none"
  /\ gone = {}
  /\ wf = [at |-> "none", err |-> "nil", ret |-> "nil"]
  /\ wenv = [exe |-> "same", errors |-> 0, interrupt |-> FALSE]
NoPreload == /\ workers = <<>> /\ crawlerUpdatingInfos = TRUE

\* NewCatalog
Init ==
  /\ tree = EmptyDir
  /\ entries = EmptyMap
  /\ nextId = 1
  /\ updatingInfos = TRUE
  /\ disk \in SUBSET Files
  /\ cacheFiles \in SUBSET CachePaths
  /\ created = 0
  /\ NoIdentify /\ NoLocks /\ NoWalk /\ NoAdd /\ NoLookup /\ NoPath /\ NoInfo
  /\ NoCrawl /\ NoQueue /\ NoRefresh /\ NoPreload

\* catalog.enumerateEntries up to the call of filepath.Walk
EnumBegin ==
  /\ pc = "idle"
  /\ enumCount < MaxEnum
  /\ updatingInfos' = TRUE
  /\ entries' = resetCold(tree, entries)
  /\ pc' = "walk"
  /\ stack' = << <<>> >>
  /\ dirs' = <<>>
  /\ found' = 0
  /\ werr' = FALSE
  /\ enumCount' = enumCount + 1
  /\ observed' = {}
  /\ stable' = TRUE
  /\ UNCHANGED serviceVars
  /\ UNCHANGED <<tree, nextId, disk, cacheFiles, created, removed, swept,
                 firstAdd, addCalls, lookupVars, pathVars, identVars, lockVars, infoVars>>

\* filepath.Walk visits one path and calls the callback on it
WalkStep ==
  /\ pc = "walk"
  /\ stack # <<>>
  /\ LET p == Head(stack)
         st == lstat(disk, p)
         r == walkFn(p, st)
         c == addFile(tree, entries, nextId, p, cacheFiles)
     IN /\ stack' = walkRest(disk, p, st, r, Tail(stack))
        /\ werr' = (r = "err")
        /\ dirs' = IF r = "dir" THEN Append(dirs, p) ELSE dirs
        /\ found' = IF r = "addFile" THEN found + 1 ELSE found
        /\ observed' = IF r = "addFile" THEN observed \cup {p} ELSE observed
        /\ IF r = "addFile"
           THEN /\ tree' = c.tree
                /\ entries' = c.entries
                /\ nextId' = c.nextId
                /\ created' = IF lookupEntry(tree, p) = NilEntry
                              THEN created + 1 ELSE created
           ELSE UNCHANGED <<tree, entries, nextId, created>>
  /\ UNCHANGED serviceVars
  /\ UNCHANGED <<updatingInfos, disk, cacheFiles, pc, enumCount, removed,
                 swept, stable, firstAdd, addCalls, lookupVars, pathVars, identVars, lockVars,
                 infoVars>>

\* catalog.enumerateEntries after filepath.Walk returned: the sweep
EnumEnd ==
  /\ pc = "walk"
  /\ stack = <<>>
  /\ tree' = trimCold(tree, entries)
  /\ entries' = [i \in EntriesOf(tree') |-> entries[i]]
  /\ removed' = removed + Cardinality({ i \in DOMAIN entries : entries[i].cold })
  /\ swept' = { entries[i].Rel : i \in { j \in DOMAIN entries : entries[j].cold } }
  /\ pc' = "reconcile"
  /\ UNCHANGED serviceVars
  /\ UNCHANGED <<nextId, updatingInfos, disk, cacheFiles, stack, dirs, found,
                 werr, enumCount, observed, created, stable, firstAdd,
                 addCalls, lookupVars, pathVars, identVars, lockVars, infoVars>>

\* crawler.enumerateEntries after catalog.enumerateEntries returned: the
\* watched directories are reconciled and lastUpdate is set.  An index out
\* of range ends the program.  (The goroutine preloadInfos it starts is in
\* SpecPreload.)
Reconcile ==
  /\ pc = "reconcile"
  /\ \E r \in {reconcile(watchedDirs, watcher, dirs)} :
       /\ watchedDirs' = r.watchedDirs
       /\ watcher' = r.watcher
       /\ pc' = IF r.panic THEN "panic" ELSE "idle"
       /\ lastUpdate' = IF r.panic THEN lastUpdate ELSE lastUpdate + 1
  /\ UNCHANGED <<catalogVars, disk, cacheFiles, stack, dirs, found, werr,
                 enumCount, observed, created, removed, swept, stable,
                 firstAdd, addCalls, lookupVars, pathVars, identVars, lockVars, infoVars,
                 queueVars, refreshVars, preloadVars>>

\* a file appears under the root
FsCreate(f) ==
  /\ f \notin disk
  /\ disk' = disk \cup {f}
  /\ stable' = FALSE
  /\ UNCHANGED serviceVars
  /\ UNCHANGED <<catalogVars, cacheFiles, pc, stack, dirs, found, werr,
                 enumCount, observed, created, removed, swept, firstAdd,
                 addCalls, lookupVars, pathVars, identVars, lockVars, infoVars>>

\* a file disappears from under the root
FsRemove(f) ==
  /\ f \in disk
  /\ disk' = disk \ {f}
  /\ stable' = FALSE
  /\ UNCHANGED serviceVars
  /\ UNCHANGED <<catalogVars, cacheFiles, pc, stack, dirs, found, werr,
                 enumCount, observed, created, removed, swept, firstAdd,
                 addCalls, lookupVars, pathVars, identVars, lockVars, infoVars>>

Next ==
  \/ EnumBegin
  \/ WalkStep
  \/ EnumEnd
  \/ Reconcile
  \/ \E f \in Files : FsCreate(f)
  \/ \E f \in Files : FsRemove(f)

Spec == Init /\ [][Next]_vars

-----------------------------------------------------------------------------
(* Properties of the enumeration *)

\* a component of the path begins with a dot
Hidden(p) == \E i \in 1..Len(p) : p[i] = Dot /\ (i = 1 \/ p[i-1] = Slash)

\* the slash-joined key paths of the Entries of a subtree
RECURSIVE EntryPaths(_)
EntryPaths(d) ==
  DOMAIN d.Items
  \cup UNION { { Join(n, q) : q \in EntryPaths(d.Subdirs[n]) } : n \in DOMAIN d.Subdirs }

\* the directories named by the paths of Files
FileDirs ==
  UNION { { SubSeq(f, 1, i - 1) : i \in { j \in 1..Len(f) : f[j] = Slash } } : f \in Files }

\* catalog.enumerateEntries has returned
EnumDone == pc \in {"reconcile", "idle", "panic"} /\ enumCount > 0

\* C4: at every state, TotalItems of the root equals the number of addFile
\* calls that created an Entry minus the number of Entries removed by the
\* cold sweeps.
C4_TotalItems == TotalItems(tree) = created - removed

C4_Witness == EnumDone /\ created >= 2 /\ removed >= 1 /\ TotalItems(tree) >= 1

\* C5: when an enumeration has completed, the catalog holds an Entry for rel
\* exactly when the walk handed rel to addFile; no Entry is left cold; and a
\* directory under which the walk saw no file is gone, with every path
\* below it.
C5_SweepExact ==
  EnumDone =>
    /\ EntryPaths(tree) = observed
    /\ \A rel \in Files : (LookupEntry(tree, rel) # NilEntry) <=> (rel \in observed)
    /\ \A i \in DOMAIN entries : ~entries[i].cold
    /\ \A D \in FileDirs :
         (\A rel \in observed : ~Under(D, rel)) =>
           /\ LookupDir(tree, D) = NilDir
           /\ \A f \in Files : Under(D, f) => LookupEntry(tree, f) = NilEntry

C5_Witness ==
  /\ EnumDone
  /\ FileC \in swept
  /\ FileD \in observed
  /\ LookupDir(tree, <<"a", "/", "b">>) = NilDir
  /\ LookupEntry(tree, FileD) # NilEntry

RECURSIVE NoEmptyDir(_)
NoEmptyDir(d) ==
  \A n \in DOMAIN d.Subdirs :
    TotalItems(d.Subdirs[n]) > 0 /\ NoEmptyDir(d.Subdirs[n])

\* C6: in every reachable state every non-root Directory reachable from the
\* root has at least one descendant Entry (the sweep prunes every directory
\* it empties, nested ones included).
C6_NoEmptyDirectory == NoEmptyDir(tree)

C6_Witness ==
  /\ EnumDone
  /\ swept = {FileC}
  /\ tree = EmptyDir

\* C7: no Entry of the catalog has a path with a component beginning with a
\* dot, and no such directory is in the list of directories returned.
C7_NoHidden ==
  /\ \A p \in EntryPaths(tree) : ~Hidden(p)
  /\ \A i \in DOMAIN entries : ~Hidden(entries[i].Rel)
  /\ \A f \in Files : Hidden(f) => LookupEntry(tree, f) = NilEntry
  /\ \A k \in 1..Len(dirs) : ~Hidden(dirs[k])

C7_Witness ==
  /\ EnumDone /\ stable /\ ~werr
  /\ FileH \in disk /\ FileE \in disk /\ FileG \in disk
  /\ found = 0

\* C8: after an enumeration that met no walk error, over a disk that did
\* not change meanwhile, every file with a recognized extension and no
\* component beginning with a dot has an Entry.
C8_AllVideosCatalogued ==
  (EnumDone /\ ~werr /\ stable) =>
    \A f \in disk :
      (isValidExt(Ext(f)) /\ ~Hidden(f)) => LookupEntry(tree, f) # NilEntry

\* C36: an enumeration removes an Entry only when its file is no longer on
\* disk: over a disk that did not change since the enumeration began, the
\* sweep removed no Entry whose file is there.
C36_RemovedOnlyIfGone ==
  (EnumDone /\ stable) => \A rel \in swept : rel \notin disk

-----------------------------------------------------------------------------
(* addFile called directly, as TestCatalog_addFile does *)

AddRels == Files

InitAdd ==
  /\ tree = EmptyDir
  /\ entries = EmptyMap
  /\ nextId = 1
  /\ updatingInfos = TRUE
  /\ disk = {}
  /\ cacheFiles \in SUBSET CachePaths
  /\ created = 0
  /\ firstAdd = EmptyMap
  /\ addCalls = [r \in AddRels |-> 0]
  /\ NoIdentify /\ NoLocks /\ NoWalk /\ NoLookup /\ NoPath /\ NoInfo
  /\ NoCrawl /\ NoQueue /\ NoRefresh /\ NoPreload

AddFileCall(rel) ==
  /\ SumOver(addCalls, AddRels) < MaxAddCalls
  /\ LET c == addFile(tree, entries, nextId, rel, cacheFiles)
     IN /\ tree' = c.tree
        /\ entries' = c.entries
        /\ nextId' = c.nextId
        /\ created' = IF c.nextId # nextId THEN created + 1 ELSE created
        /\ firstAdd' = IF rel \in DOMAIN firstAdd THEN firstAdd
                       ELSE (rel :> nextId) @@ firstAdd
  /\ addCalls' = [addCalls EXCEPT ![rel] = @ + 1]
  /\ UNCHANGED serviceVars
  /\ UNCHANGED <<updatingInfos, disk, cacheFiles, walkVars, lookupVars,
                 pathVars, identVars, lockVars, infoVars>>

NextAdd == \E rel \in AddRels : AddFileCall(rel)

SpecAdd == InitAdd /\ [][NextAdd]_vars

\* C1: after any sequence of addFile calls, for every rel added LookupEntry(rel)
\* is the Entry made by the first addFile(rel), and LookupDir of rel's parent
\* (with or without a trailing slash) holds that Entry under rel's base name.
C1_AddThenLookup ==
  \A rel \in DOMAIN firstAdd :
    /\ firstAdd[rel] \in DOMAIN entries
    /\ entries[firstAdd[rel]].Rel = rel
    /\ LookupEntry(tree, rel) = firstAdd[rel]
    /\ \A D \in {Dir(rel)} \cup (IF Dir(rel) = <<>> THEN {} ELSE {Dir(rel) \o <<Slash>>}) :
         /\ LookupDir(tree, D) # NilDir
         /\ Base(rel) \in DOMAIN LookupDir(tree, D).Items
         /\ LookupDir(tree, D).Items[Base(rel)] = firstAdd[rel]

C1_Witness ==
  /\ addCalls[FileC] = 2
  /\ addCalls[FileD] = 1
  /\ firstAdd[FileC] = 1
  /\ LookupEntry(tree, FileC) = 1

-----------------------------------------------------------------------------
(* Lookups, on the trees addFile builds *)

LookupAlphabet == {"a", "b", "c", Slash}

LookupFiles == { <<"c">>, <<"a", "/", "c">>, <<"a", "/", "b", "/", "c">>,
                 <<"b", "/", "a">> }

LookupArgs == UNION { [1..n -> LookupAlphabet] : n \in 0..MaxLen }

\* the catalog after addFile of every path of the sequence
RECURSIVE BuildTree(_, _)
BuildTree(c, rels) ==
  IF rels = <<>> THEN c
  ELSE BuildTree(addFile(c.tree, c.entries, c.nextId, Head(rels), {}), Tail(rels))

InitLookup ==
  /\ \E S \in SUBSET LookupFiles :
       LET c == BuildTree([tree |-> EmptyDir, entries |-> EmptyMap, nextId |-> 1],
                          SortNames(S))
       IN /\ tree = c.tree
          /\ entries = c.entries
          /\ nextId = c.nextId
          /\ created = c.nextId - 1
  /\ updatingInfos = TRUE
  /\ disk = {}
  /\ cacheFiles = {}
  /\ lq \in LookupArgs
  /\ lop = "none"
  /\ ldir = NilDir
  /\ lentry = NilEntry
  /\ snap = NoSnap
  /\ NoIdentify /\ NoLocks /\ NoWalk /\ NoAdd /\ NoPath /\ NoInfo
  /\ NoCrawl /\ NoQueue /\ NoRefresh /\ NoPreload

CallLookupDir ==
  /\ lop = "none"
  /\ lop' = "LookupDir"
  /\ ldir' = LookupDir(tree, lq)
  /\ UNCHANGED serviceVars
  /\ UNCHANGED <<catalogVars, disk, cacheFiles, walkVars, created, firstAdd,
                 addCalls, lq, lentry, snap, pathVars, identVars, lockVars, infoVars>>

CallLookupEntry ==
  /\ lop = "none"
  /\ lop' = "LookupEntry"
  /\ lentry' = LookupEntry(tree, lq)
  /\ UNCHANGED serviceVars
  /\ UNCHANGED <<catalogVars, disk, cacheFiles, walkVars, created, firstAdd,
                 addCalls, lq, ldir, snap, pathVars, identVars, lockVars, infoVars>>

NextLookup == CallLookupDir \/ CallLookupEntry

SpecLookup == InitLookup /\ [][NextLookup]_vars

HasDoubleSlash(q) == \E i \in 1..(Len(q) - 1) : q[i] = Slash /\ q[i+1] = Slash

\* the names between the slashes of q
RECURSIVE Components(_)
Components(q) ==
  LET i == IndexByte(q, Slash)
  IN IF i = 0 THEN <<q>>
     ELSE <<SubSeq(q, 1, i-1)>> \o Components(SubSeq(q, i+1, Len(q)))

\* the Directory reached from d by following the names, one map read each
RECURSIVE Descend(_, _)
Descend(d, names) ==
  IF names = <<>> THEN d
  ELSE IF Head(names) \in DOMAIN d.Subdirs
       THEN Descend(d.Subdirs[Head(names)], Tail(names))
       ELSE NilDir

\* C2: LookupEntry is null for a path with a leading slash, a trailing slash
\* or a double slash; it is non-null exactly when the directory prefix
\* resolves to a Directory and the last component is a key of its Items.
C2_LookupEntryRejects ==
  lop = "LookupEntry" =>
    LET i == LastIndexByte(lq, Slash)
        pre == IF i = 0 THEN <<>> ELSE SubSeq(lq, 1, i-1)
        last == SubSeq(lq, i+1, Len(lq))
        bad == lq # <<>> /\ (lq[1] = Slash \/ lq[Len(lq)] = Slash \/ HasDoubleSlash(lq))
    IN /\ bad => lentry = NilEntry
       /\ (lentry # NilEntry) <=>
            (/\ ~bad
             /\ Descend(tree, IF pre = <<>> THEN <<>> ELSE Components(pre)) # NilDir
             /\ last \in DOMAIN Descend(tree, IF pre = <<>> THEN <<>> ELSE Components(pre)).Items)

\* C3: LookupDir("") is the root; LookupDir of slash-separated names of
\* existing sub-directories is that Directory, one trailing slash allowed;
\* LookupDir is null for a leading slash, a double slash, an unknown
\* directory and a path ending in the name of an Entry.
C3_LookupDir ==
  lop = "LookupDir" =>
    ldir = IF lq = <<>> THEN tree
           ELSE IF lq[1] = Slash \/ HasDoubleSlash(lq) THEN NilDir
           ELSE Descend(tree, Components(IF lq[Len(lq)] = Slash
                                         THEN SubSeq(lq, 1, Len(lq) - 1)
                                         ELSE lq))

C3_Witness ==
  /\ lop = "LookupDir"
  /\ lq = <<"a", "/", "b", "/">>
  /\ ldir # NilDir
  /\ DOMAIN ldir.Items = {<<"c">>}

-----------------------------------------------------------------------------
(* The cache path mapping, applied to two (rel, device) pairs *)

FileD2 == <<"a", "/", "d", ".", "mp4">>   \* FileD under another extension
PathRels == Files \cup {FileD2}

InitPath ==
  /\ tree = EmptyDir
  /\ entries = EmptyMap
  /\ nextId = 1
  /\ updatingInfos = TRUE
  /\ disk = {}
  /\ cacheFiles = {}
  /\ created = 0
  /\ pa \in PathRels \X Devices
  /\ pb \in PathRels \X Devices
  /\ ca = <<>>
  /\ cb = <<>>
  /\ NoIdentify /\ NoLocks /\ NoWalk /\ NoAdd /\ NoLookup /\ NoInfo
  /\ NoCrawl /\ NoQueue /\ NoRefresh /\ NoPreload

CallToCachedPath ==
  /\ ca = <<>>
  /\ ca' = toCachedPath(pa[1], pa[2])
  /\ cb' = toCachedPath(pb[1], pb[2])
  /\ UNCHANGED serviceVars
  /\ UNCHANGED <<catalogVars, disk, cacheFiles, walkVars, created, firstAdd,
                 addCalls, lookupVars, pa, pb, identVars, lockVars, infoVars>>

NextPath == CallToCachedPath

SpecPath == InitPath /\ [][NextPath]_vars

\* C9: the cache path is the device's name, a slash, and rel with its
\* extension replaced by the device's container; two (rel, device) pairs
\* have the same cache path if and only if the pairs are equal.
C9_CachedPathInjective ==
  ca # <<>> =>
    /\ ca = String(pa[2]) \o <<Slash>>
            \o SubSeq(pa[1], 1, Len(pa[1]) - Len(Ext(pa[1])))
            \o <<Dot>> \o ToContainer(pa[2])
    /\ (ca = cb) <=> (pa = pb)

-----------------------------------------------------------------------------
(* Entry.Info called from several threads *)

Threads == {"http", "preload", "worker"}

InfoRels == <<FileC, FileD>>

\* variant: a stored error does not stop the probe
needProbe_noErr(e) == e.info = NilInfo

\* the condition under which Entry.Info calls vid.Identify
needProbe(e) == e.info = NilInfo /\ e.err = NilErr

InitInfo ==
  /\ LET c == BuildTree([tree |-> EmptyDir, entries |-> EmptyMap, nextId |-> 1],
                        InfoRels)
     IN /\ tree = c.tree
        /\ entries = c.entries
        /\ nextId = c.nextId
        /\ created = c.nextId - 1
        /\ emu = [e \in DOMAIN c.entries |-> "free"]
        /\ probes = [e \in DOMAIN c.entries |-> 0]
  /\ updatingInfos = TRUE
  /\ disk = {InfoRels[1], InfoRels[2]}
  /\ cacheFiles = {}
  /\ ipc = [t \in Threads |-> [at |-> "idle", e |-> NilEntry, calls |-> 0]]
  /\ iret = [t \in Threads |-> [e |-> NilEntry, info |-> NilInfo]]
  /\ NoIdentify /\ NoLocks /\ NoWalk /\ NoAdd /\ NoLookup /\ NoPath
  /\ NoCrawl /\ NoQueue /\ NoRefresh /\ NoPreload

\* a thread calls e.Info(): srcFile() is computed, the lock is not taken yet
InfoCall(t, e) ==
  /\ ipc[t].at = "idle"
  /\ ipc[t].calls < MaxInfoCalls
  /\ ipc' = [ipc EXCEPT ![t] = [at |-> "lock", e |-> e, calls |-> @.calls + 1]]
  /\ UNCHANGED serviceVars
  /\ UNCHANGED <<catalogVars, disk, cacheFiles, walkVars, created, firstAdd,
                 addCalls, lookupVars, pathVars, identVars, lockVars, emu, iret, probes>>

\* e.mu.Lock() succeeds; either vid.Identify is started, the lock being
\* held, or the cached e.info is returned and the lock released
InfoLock(t) ==
  /\ ipc[t].at = "lock"
  /\ LET e == ipc[t].e
     IN /\ emu[e] = "free"
        /\ IF needProbe(entries[e])
           THEN /\ emu' = [emu EXCEPT ![e] = t]
                /\ probes' = [probes EXCEPT ![e] = @ + 1]
                /\ ipc' = [ipc EXCEPT ![t].at = "probe"]
                /\ UNCHANGED iret
           ELSE /\ iret' = [iret EXCEPT ![t] = [e |-> e, info |-> entries[e].info]]
                /\ ipc' = [ipc EXCEPT ![t].at = "idle"]
                /\ UNCHANGED <<emu, probes>>
  /\ UNCHANGED serviceVars
  /\ UNCHANGED <<catalogVars, disk, cacheFiles, walkVars, created, firstAdd,
                 addCalls, lookupVars, pathVars, identVars, lockVars>>

\* vid.Identify returns: e.info and e.err are stored, e.info is returned and
\* the deferred Unlock runs.  A successful probe yields an Info of its own.
InfoProbeDone(t, ok) ==
  /\ ipc[t].at = "probe"
  /\ LET e == ipc[t].e
         i == IF ok THEN probes[e] ELSE NilInfo
     IN /\ entries' = [entries EXCEPT ![e].info = i,
                                      ![e].err = IF ok THEN NilErr ELSE 1]
        /\ iret' = [iret EXCEPT ![t] = [e |-> e, info |-> i]]
        /\ emu' = [emu EXCEPT ![e] = "free"]
  /\ ipc' = [ipc EXCEPT ![t].at = "idle"]
  /\ UNCHANGED serviceVars
  /\ UNCHANGED <<tree, nextId, updatingInfos, disk, cacheFiles, walkVars,
                 created, firstAdd, addCalls, lookupVars, pathVars, identVars, lockVars, probes>>

NextInfo ==
  \/ \E t \in Threads, e \in DOMAIN entries : InfoCall(t, e)
  \/ \E t \in Threads : InfoLock(t)
  \/ \E t \in Threads, ok \in BOOLEAN : InfoProbeDone(t, ok)

SpecInfo == InitInfo /\ [][NextInfo]_vars

\* what holds of the probe in every state
ProbeOnceState ==
  /\ \A e \in DOMAIN entries :
       /\ probes[e] <= 1
       /\ (probes[e] = 0 => entries[e].info = NilInfo /\ entries[e].err = NilErr)
       /\ ~(entries[e].info # NilInfo /\ entries[e].err # NilErr)
       /\ Cardinality({ t \in Threads : ipc[t].at = "probe" /\ ipc[t].e = e }) <= 1
  /\ \A t \in Threads :
       iret[t].e # NilEntry =>
         /\ iret[t].info = entries[iret[t].e].info
         /\ (entries[iret[t].e].err # NilErr => iret[t].info = NilInfo)

\* what holds of e.info and e.err in every step
InfoStableStep ==
  \A e \in DOMAIN entries :
    /\ (entries[e].info # NilInfo => entries'[e].info = entries[e].info)
    /\ (entries[e].err # NilErr => entries'[e].err = entries[e].err)

\* C10: for every Entry and every interleaving of Info() callers the probe
\* runs at most once and by one thread at a time; the first call stores
\* either info or the error, never both; info once non-null never changes
\* and a stored error stays; every value an Info() call returned is the
\* info the Entry holds, null when the error is stored.
C10_ProbeOnce == []ProbeOnceState /\ [][InfoStableStep]_vars

C10_Witness ==
  /\ entries[1].err # NilErr
  /\ entries[2].info # NilInfo
  /\ iret["http"] = [e |-> 1, info |-> NilInfo]
  /\ iret["worker"] = [e |-> 1, info |-> NilInfo]
  /\ iret["preload"] = [e |-> 2, info |-> 1]
  /\ \A t \in Threads : ipc[t].calls = 2 /\ ipc[t].at = "idle"
  /\ probes[1] = 1

-----------------------------------------------------------------------------
(* The watched directories after an enumeration *)

\* the absolute paths of the directories the last enumeration returned
EnumeratedDirs == { Join(rootDir, dirs[i]) : i \in 1..Len(dirs) }

\* C28: the reconciliation of the watched directories always runs to its
\* end, where lastUpdate is set, whatever directories were tracked and
\* whatever directories the enumeration found.
C28_ReconcileCompletes ==
  [][(pc = "reconcile" /\ pc' # pc) =>
       (pc' = "idle" /\ lastUpdate' = lastUpdate + 1)]_vars

\* C20: after the reconciliation of an enumeration the tracked list of
\* watched directories is sorted, holds no duplicate and no empty string, and
\* is exactly the enumerated directories, each joined to the root; the
\* watcher watches exactly these directories; and the reconciliation ends.
C20_WatchedDirsReconciled ==
  /\ pc # "panic"
  /\ (pc = "idle" /\ enumCount > 0) =>
       /\ watchedDirs = SortNames(EnumeratedDirs)
       /\ watcher = EnumeratedDirs

-----------------------------------------------------------------------------
(* The transcoding queue: server.doTranscode, Transcode, run and Close *)

Handlers == {"h1", "h2"}

\* the catalog of the queue: one video
QueueRels == <<FileC>>

\* the devices doTranscode is routed for
QueueDevices == {ChromeCast, ChromeOS}

\* what vid.Identify finds in the files: Raw.Streams[VideoIndex].NbFrames
Infos == <<[NbFrames |-> "2"], [NbFrames |-> "N/A"]>>

\* the Info vid.Identify yields for a file when it succeeds
Identify(rel) == IF rel = FileC THEN 1 ELSE 2

\* Entry.Info as one step: the Entry after the call, the probe having
\* succeeded or failed when it ran
InfoOutcomes(e) ==
  IF needProbe(e)
  THEN {[e EXCEPT !.info = Identify(e.Rel)], [e EXCEPT !.err = 1]}
  ELSE {e}

\* strconv.Atoi of the strings of one token
Atoi(s) ==
  CASE s = "0" -> [n |-> 0, err |-> NilErr]
    [] s = "1" -> [n |-> 1, err |-> NilErr]
    [] s = "2" -> [n |-> 2, err |-> NilErr]
    [] s = "3" -> [n |-> 3, err |-> NilErr]
    [] OTHER -> [n |-> 0, err |-> 1]

\* fmt.Sprintf("%3.1f%%", 100.*float32(f)/float32(nb))
Sprintf31(f, nb) ==
  IF nb = 0 THEN (IF f = 0 THEN <<"NaN", "%">> ELSE <<"+Inf", "%">>)
  ELSE LET t == (2000 * f + nb) \div (2 * nb)
       IN <<ToString(t \div 10), Dot, ToString(t % 10), "%">>

\* Entry.Percent, of the Entry as e.Info() left it
Percent(e) ==
  IF e.info = NilInfo THEN <<"N/A">>
  ELSE LET a == Atoi(Infos[e.info].NbFrames)
       IN IF a.err # NilErr THEN <<"N/A">> ELSE Sprintf31(e.frame, a.n)

\* variant: the cache bit is set whatever the encoder returned
runFinish_anyErr(e, v, err) ==
  [e EXCEPT !.transcoding = FALSE, !.cached = @ \cup {v}]

\* the end of the loop body of run: the Entry after the encoder returned err
runFinish(e, v, err) ==
  [e EXCEPT !.transcoding = FALSE,
            !.cached = IF err = NilErr THEN @ \cup {v} ELSE @]

\* variant: the newest request is received first
recv_newest(q) == [r |-> q[Len(q)], rest |-> SubSeq(q, 1, Len(q) - 1)]

\* a receive from the channel t.queue
recv(q) == [r |-> Head(q), rest |-> Tail(q)]

\* a handler that serves no request
IdleHandler == [at |-> "idle", v |-> 0, e |-> NilEntry, n |-> 0, b |-> {}]

\* the requests buffered or with the worker, by their numbers
Pending ==
  { queue[i].n : i \in 1..Len(queue) } \cup
    (IF wpc \in {"Info", "Lock", "TranscodeMP4", "finish"} THEN {wreq.n} ELSE {})

\* NewCatalog, the first enumeration and NewTranscodingQueue
InitQueue ==
  /\ LET c == BuildTree([tree |-> EmptyDir, entries |-> EmptyMap, nextId |-> 1],
                        QueueRels)
     IN /\ tree = c.tree
        /\ entries = c.entries
        /\ nextId = c.nextId
        /\ created = c.nextId - 1
  /\ updatingInfos = TRUE
  /\ disk = {QueueRels[1]}
  /\ cacheFiles = {}
  /\ queue = <<>>
  /\ tmu = "free"
  /\ wpc = "recv"
  /\ wreq = NilReq
  /\ wres = [i |-> NilInfo, err |-> NilErr]
  /\ qclose = "idle"
  /\ hreq = [t \in Handlers |-> IdleHandler]
  /\ tickets = 0
  /\ encoded = {}
  /\ late = {}
  /\ inflight = {}
  /\ pct = [e |-> NilEntry]
  /\ NoIdentify /\ NoLocks /\ NoWalk /\ NoAdd /\ NoLookup /\ NoPath /\ NoInfo
  /\ NoCrawl /\ NoRefresh /\ NoPreload

\* what the actions of the queue leave alone
QueueFrame ==
  UNCHANGED <<tree, nextId, updatingInfos, disk, walkVars, created, firstAdd,
              addCalls, lookupVars, pathVars, identVars, lockVars, infoVars, crawlVars,
              refreshVars, preloadVars>>

\* doTranscode up to the lookup: a POST with a referer for the device v
DoTranscodeLookup(t, v, rel) ==
  /\ hreq[t].at = "idle"
  /\ tickets + Cardinality({ u \in DOMAIN hreq : hreq[u].at \notin {"idle", "send"} })
       < MaxRequests
  /\ LET e == LookupEntry(tree, rel)
     IN hreq' = [hreq EXCEPT ![t] =
                   IF e = NilEntry THEN IdleHandler
                   ELSE [at |-> "IsCached", v |-> v, e |-> e, n |-> 0, b |-> {}]]
  /\ UNCHANGED <<entries, cacheFiles, queue, tmu, wpc, wreq, wres, qclose,
                 tickets, encoded, late, inflight, pct>>
  /\ QueueFrame

\* doTranscode: e.IsCached(v)
DoTranscodeIsCached(t) ==
  /\ hreq[t].at = "IsCached"
  /\ hreq' = [hreq EXCEPT ![t] =
                IF hreq[t].v \in entries[hreq[t].e].cached
                THEN IdleHandler ELSE [@ EXCEPT !.at = "IsTranscoding"]]
  /\ UNCHANGED <<entries, cacheFiles, queue, tmu, wpc, wreq, wres, qclose,
                 tickets, encoded, late, inflight, pct>>
  /\ QueueFrame

\* doTranscode: e.IsTranscoding()
DoTranscodeIsTranscoding(t) ==
  /\ hreq[t].at = "IsTranscoding"
  /\ hreq' = [hreq EXCEPT ![t] =
                IF entries[hreq[t].e].transcoding
                THEN IdleHandler ELSE [@ EXCEPT !.at = "Info"]]
  /\ UNCHANGED <<entries, cacheFiles, queue, tmu, wpc, wreq, wres, qclose,
                 tickets, encoded, late, inflight, pct>>
  /\ QueueFrame

\* doTranscode: e.Info()
DoTranscodeInfo(t) ==
  /\ hreq[t].at = "Info"
  /\ \E e2 \in InfoOutcomes(entries[hreq[t].e]) :
       /\ entries' = [entries EXCEPT ![hreq[t].e] = e2]
       /\ hreq' = [hreq EXCEPT ![t] =
                     IF e2.info = NilInfo
                     THEN IdleHandler ELSE [@ EXCEPT !.at = "Transcode"]]
  /\ UNCHANGED <<cacheFiles, queue, tmu, wpc, wreq, wres, qclose, tickets,
                 encoded, late, inflight, pct>>
  /\ QueueFrame

\* Transcode up to the send: the flag is set under e.mu
TranscodeSet(t) ==
  /\ hreq[t].at = "Transcode"
  /\ entries' = [entries EXCEPT ![hreq[t].e].transcoding = TRUE]
  /\ tickets' = tickets + 1
  /\ hreq' = [hreq EXCEPT ![t].at = "send", ![t].n = tickets + 1,
                           ![t].b = Pending]
  /\ UNCHANGED <<cacheFiles, queue, tmu, wpc, wreq, wres, qclose, encoded,
                 late, inflight, pct>>
  /\ QueueFrame

\* Transcode: the send on t.queue; doTranscode then redirects and returns
TranscodeSend(t) ==
  /\ hreq[t].at = "send"
  /\ queue' = Append(queue, [v |-> hreq[t].v, e |-> hreq[t].e,
                             n |-> hreq[t].n, b |-> hreq[t].b])
  /\ hreq' = [hreq EXCEPT ![t] = IdleHandler]
  /\ UNCHANGED <<entries, cacheFiles, tmu, wpc, wreq, wres, qclose, tickets,
                 encoded, late, inflight, pct>>
  /\ QueueFrame

\* run: the range over t.queue yields a request, or the nil that ends run
WorkerRecv ==
  /\ wpc = "recv"
  /\ queue # <<>>
  /\ LET m == recv(queue)
     IN /\ queue' = m.rest
        /\ IF m.r = NilReq
           THEN /\ wpc' = "exit"
                /\ UNCHANGED wreq
           ELSE /\ wpc' = "Info"
                /\ wreq' = m.r
  /\ UNCHANGED <<entries, cacheFiles, tmu, wres, qclose, hreq, tickets,
                 encoded, late, inflight, pct>>
  /\ QueueFrame

\* run: i := r.e.Info()
WorkerInfo ==
  /\ wpc = "Info"
  /\ \E e2 \in InfoOutcomes(entries[wreq.e]) :
       /\ entries' = [entries EXCEPT ![wreq.e] = e2]
       /\ wres' = [i |-> e2.info, err |-> NilErr]
  /\ wpc' = "Lock"
  /\ UNCHANGED <<cacheFiles, queue, tmu, wreq, qclose, hreq, tickets, encoded,
                 late, inflight, pct>>
  /\ QueueFrame

\* run: t.mu.Lock() and the call of TranscodeMP4, which starts the encoder;
\* with a nil Info TranscodeMP4 dereferences it and the program dies
WorkerLock ==
  /\ wpc = "Lock"
  /\ tmu = "free"
  /\ tmu' = "worker"
  /\ IF wres.i = NilInfo
     THEN /\ wpc' = "panic"
          /\ UNCHANGED late
     ELSE /\ wpc' = "TranscodeMP4"
          /\ late' = IF qclose = "returned" THEN late \cup {wreq.n} ELSE late
  /\ UNCHANGED <<entries, cacheFiles, queue, wreq, wres, qclose, hreq,
                 tickets, encoded, inflight, pct>>
  /\ QueueFrame

\* the callback p of run, called by the encoder with the frame it is at;
\* the encoder has written that much of the output file
EncoderProgress(f) ==
  /\ wpc = "TranscodeMP4"
  /\ entries[wreq.e].frame # f
  /\ entries' = [entries EXCEPT ![wreq.e].frame = f]
  /\ cacheFiles' = cacheFiles \cup {toCachedPath(entries[wreq.e].Rel, wreq.v)}
  /\ UNCHANGED <<queue, tmu, wpc, wreq, wres, qclose, hreq, tickets, encoded,
                 late, inflight, pct>>
  /\ QueueFrame

\* variant: what a failed encoder wrote is left in place
transcodeOutput_keepPartial(files, dst, ok) == IF ok THEN files \cup {dst} ELSE files

\* TranscodeMP4 after ffmpeg.Transcode returned: the files of the cache, with
\* dst written by an encoder that succeeded and removed after one that failed
transcodeOutput(files, dst, ok) ==
  IF ok THEN files \cup {dst} ELSE files \ {dst}

\* run: TranscodeMP4 returns, the output file written when it succeeded,
\* and t.mu.Unlock()
WorkerTranscodeDone(ok) ==
  /\ wpc = "TranscodeMP4"
  /\ tmu' = "free"
  /\ wres' = [wres EXCEPT !.err = IF ok THEN NilErr ELSE 1]
  /\ cacheFiles' = transcodeOutput(cacheFiles,
                                   toCachedPath(entries[wreq.e].Rel, wreq.v), ok)
  /\ encoded' = IF ok THEN encoded \cup {<<wreq.e, wreq.v>>} ELSE encoded
  /\ wpc' = "finish"
  /\ UNCHANGED <<entries, queue, wreq, qclose, hreq, tickets, late, inflight,
                 pct>>
  /\ QueueFrame

\* run: the flags of the Entry are set under e.mu
WorkerFinish ==
  /\ wpc = "finish"
  /\ entries' = [entries EXCEPT ![wreq.e] = runFinish(@, wreq.v, wres.err)]
  /\ wpc' = "recv"
  /\ wreq' = NilReq
  /\ wres' = [i |-> NilInfo, err |-> NilErr]
  /\ UNCHANGED <<cacheFiles, queue, tmu, qclose, hreq, tickets, encoded,
                 late, inflight, pct>>
  /\ QueueFrame

\* Close is called
QueueCloseCall ==
  /\ qclose = "idle"
  /\ qclose' = "select"
  /\ inflight' = IF wpc = "TranscodeMP4" THEN {wreq.n} ELSE {}
  /\ UNCHANGED <<entries, cacheFiles, queue, tmu, wpc, wreq, wres, hreq,
                 tickets, encoded, late, pct>>
  /\ QueueFrame

\* Close: the select; a buffered request is received and dropped, and with
\* none buffered the default case is taken
QueueCloseSelect ==
  /\ qclose = "select"
  /\ IF queue # <<>>
     THEN /\ queue' = Tail(queue)
          /\ UNCHANGED qclose
     ELSE /\ qclose' = "send"
          /\ UNCHANGED queue
  /\ UNCHANGED <<entries, cacheFiles, tmu, wpc, wreq, wres, hreq, tickets,
                 encoded, late, inflight, pct>>
  /\ QueueFrame

\* Close: t.queue <- nil
QueueCloseSend ==
  /\ qclose = "send"
  /\ queue' = Append(queue, NilReq)
  /\ qclose' = "Lock"
  /\ UNCHANGED <<entries, cacheFiles, tmu, wpc, wreq, wres, hreq, tickets,
                 encoded, late, inflight, pct>>
  /\ QueueFrame

\* Close: t.mu.Lock(), t.mu.Unlock() and the return
QueueCloseLock ==
  /\ qclose = "Lock"
  /\ tmu = "free"
  /\ qclose' = "returned"
  /\ UNCHANGED <<entries, cacheFiles, queue, tmu, wpc, wreq, wres, hreq,
                 tickets, encoded, late, inflight, pct>>
  /\ QueueFrame

\* the devices for which the worker completed a successful encode of the
\* Entry e
Encoded(e) ==
  { v \in Devices : <<e, v>> \in encoded /\ v \in entries[e].cached }

\* e.Percent() is called
CallPercent(e) ==
  /\ pct.e = NilEntry
  /\ \E e2 \in InfoOutcomes(entries[e]) :
       /\ entries' = [entries EXCEPT ![e] = e2]
       /\ pct' = [e |-> e, info |-> e2.info, frame |-> e2.frame,
                  done |-> Encoded(e), ret |-> Percent(e2)]
  /\ UNCHANGED <<cacheFiles, queue, tmu, wpc, wreq, wres, qclose, hreq,
                 tickets, encoded, late, inflight>>
  /\ QueueFrame

NextQueue ==
  \/ \E t \in Handlers, v \in QueueDevices, rel \in {FileC, FileG} :
       DoTranscodeLookup(t, v, rel)
  \/ \E t \in Handlers : DoTranscodeIsCached(t)
  \/ \E t \in Handlers : DoTranscodeIsTranscoding(t)
  \/ \E t \in Handlers : DoTranscodeInfo(t)
  \/ \E t \in Handlers : TranscodeSet(t)
  \/ \E t \in Handlers : TranscodeSend(t)
  \/ WorkerRecv
  \/ WorkerInfo
  \/ WorkerLock
  \/ \E f \in 1..MaxFrame : EncoderProgress(f)
  \/ \E ok \in BOOLEAN : WorkerTranscodeDone(ok)
  \/ WorkerFinish
  \/ QueueCloseCall
  \/ QueueCloseSelect
  \/ QueueCloseSend
  \/ QueueCloseLock

SpecQueue == InitQueue /\ [][NextQueue]_vars

\* what holds of the cache bits in every step: a bit is set only by the worker
\* at the end of the loop body for that Entry and device, the encoder having
\* returned no error, and this step changes no other bit
CachedStep ==
  \A e \in DOMAIN entries :
    \A d \in Devices :
      (d \notin entries[e].cached /\ d \in entries'[e].cached) =>
        /\ wpc = "finish" /\ wreq.e = e /\ wreq.v = d
        /\ wres.err = NilErr
        /\ <<e, d>> \in encoded
        /\ entries'[e].cached = entries[e].cached \cup {d}

\* every successful encode the worker completed has its bit set
EncodedCached ==
  \A p \in encoded :
    \/ p[2] \in entries[p[1]].cached
    \/ wpc = "finish" /\ wreq.e = p[1] /\ wreq.v = p[2]

\* C11: a cache bit of an Entry goes from false to true only when the worker
\* finishes an encode for that Entry and device that the encoder reported as
\* successful; that step leaves the bits of the other devices alone, so that
\* after successful transcodes for ChromeCast and then ChromeOS both bits
\* are true.
C11_CachedOnlyOnSuccess == [][CachedStep]_vars /\ []EncodedCached

C11_Witness ==
  /\ encoded = {<<1, ChromeCast>>, <<1, ChromeOS>>}
  /\ entries[1].cached = {ChromeCast, ChromeOS}
  /\ wpc = "recv"

\* the number of requests for the Entry e that are outstanding: sent and not
\* received yet, with the worker, or in a Transcode call that has set the
\* flag and is about to send
Outstanding(e) ==
  Cardinality({ i \in 1..Len(queue) : queue[i].e = e })
    + (IF wpc \in {"Info", "Lock", "TranscodeMP4", "finish"} /\ wreq.e = e
       THEN 1 ELSE 0)
    + Cardinality({ t \in DOMAIN hreq : hreq[t].at = "send" /\ hreq[t].e = e })

\* the worker ends the loop body of a request whose encoder failed
FailedEncodeStep ==
  (wpc = "finish" /\ wres.err # NilErr /\ wpc' = "recv") =>
    /\ ~entries'[wreq.e].transcoding
    /\ entries'[wreq.e].cached = entries[wreq.e].cached
    /\ toCachedPath(entries[wreq.e].Rel, wreq.v) \notin cacheFiles'

\* C24: when the encoder fails for a request, the worker then sets
\* transcoding to false and leaves cached[device] as it was, and from the
\* return of the encoder on no file is at the cache path of the request.
C24_FailedEncode ==
  /\ [][FailedEncodeStep]_vars
  /\ [](wpc = "finish" /\ wres.err # NilErr =>
          toCachedPath(entries[wreq.e].Rel, wreq.v) \notin cacheFiles)

\* the encoder failed after it had reported a frame
C24_Witness ==
  /\ wpc = "finish"
  /\ wres.err # NilErr
  /\ entries[wreq.e].frame > 0
  /\ wreq.v \notin entries[wreq.e].cached

\* TranscodingQueue.Transcode called for an Entry of the catalog by a caller
\* that makes none of the tests of doTranscode
TranscodeCall(t, v, rel) ==
  /\ hreq[t].at = "idle"
  /\ tickets + Cardinality({ u \in DOMAIN hreq : hreq[u].at \notin {"idle", "send"} })
       < MaxRequests
  /\ LookupEntry(tree, rel) # NilEntry
  /\ hreq' = [hreq EXCEPT ![t] = [at |-> "Transcode", v |-> v,
                                  e |-> LookupEntry(tree, rel),
                                  n |-> 0, b |-> {}]]
  /\ UNCHANGED <<entries, cacheFiles, queue, tmu, wpc, wreq, wres, qclose,
                 tickets, encoded, late, inflight, pct>>
  /\ QueueFrame

NextQueueApi ==
  \/ NextQueue
  \/ \E t \in Handlers, v \in QueueDevices : TranscodeCall(t, v, FileC)

SpecQueueApi == InitQueue /\ [][NextQueueApi]_vars

\* the worker goes on from i := r.e.Info() with i nil
NilInfoStep ==
  (wpc = "Lock" /\ wres.i = NilInfo /\ wpc' # wpc) =>
    /\ wpc' \in {"finish", "recv"}
    /\ tmu' = tmu
    /\ encoded' = encoded

\* C27: when Info() of the Entry of a request is nil the worker does not
\* call the encoder for it; it goes to the end of the loop body, where it
\* sets transcoding to false and leaves cached[device] as it was, and then
\* takes the next request.
C27_NilInfoSkipsEncode ==
  /\ [][NilInfoStep]_vars
  /\ [][(wpc = "finish" /\ wres.i = NilInfo /\ wpc' # wpc) =>
          /\ ~entries'[wreq.e].transcoding
          /\ entries'[wreq.e].cached = entries[wreq.e].cached
          /\ wpc' = "recv"]_vars

\* C12: in every reachable state, an Entry whose transcoding flag is true
\* has exactly one outstanding request, and an Entry whose flag is false has
\* none.
C12_FlagIffOneRequest ==
  \A e \in DOMAIN entries :
    Outstanding(e) = (IF entries[e].transcoding THEN 1 ELSE 0)

\* what holds when the encoder is started for a request: no request whose
\* Transcode call returned before this one's began is still buffered
EncoderStartStep ==
  (wpc = "Lock" /\ wpc' = "TranscodeMP4") =>
    \A i \in 1..Len(queue') : queue'[i].n \notin wreq.b

\* C13: the encoder runs under t.mu, held by the one worker, so at most one
\* invocation is in progress; and when Transcode(d1,e1) returned before
\* Transcode(d2,e2) was called, the encoder of the second request starts
\* only after the first request left the queue and its encoder exited.
C13_OneEncoderFifo ==
  /\ [](wpc = "TranscodeMP4" => tmu = "worker")
  /\ [](tmu = "worker" => wpc \in {"TranscodeMP4", "panic"})
  /\ [][EncoderStartStep]_vars

C13_Witness ==
  /\ wpc = "TranscodeMP4"
  /\ wreq.n = 2
  /\ wreq.b = {1}
  /\ <<1, ChromeCast>> \in encoded

\* C14: an encode in flight when Close is called has ended when Close
\* returns, and no encoder invocation starts after Close returned.
C14_CloseWaitsForEncodes ==
  /\ late = {}
  /\ qclose = "returned" =>
       ~(wpc = "TranscodeMP4" /\ wreq.n \in inflight)

\* C38: once Close has returned and run has ended, with no Transcode call
\* under way, no Entry has transcoding set: the requests Close dropped and
\* those sent around it have had the flag cleared.
C38_NoFlagAfterClose ==
  (/\ qclose = "returned"
   /\ wpc = "exit"
   /\ \A t \in DOMAIN hreq : hreq[t].at = "idle") =>
    \A e \in DOMAIN entries : ~entries[e].transcoding

-----------------------------------------------------------------------------
(* Entry.Percent, called while the queue encodes *)

PercentRels == <<FileC, FileD>>

\* NewCatalog, the first enumeration and NewTranscodingQueue; one handler
\* serves the transcode requests and Close is not called
InitPercent ==
  /\ LET c == BuildTree([tree |-> EmptyDir, entries |-> EmptyMap, nextId |-> 1],
                        PercentRels)
     IN /\ tree = c.tree
        /\ entries = c.entries
        /\ nextId = c.nextId
        /\ created = c.nextId - 1
  /\ updatingInfos = TRUE
  /\ disk = {PercentRels[1], PercentRels[2]}
  /\ cacheFiles = {}
  /\ queue = <<>>
  /\ tmu = "free"
  /\ wpc = "recv"
  /\ wreq = NilReq
  /\ wres = [i |-> NilInfo, err |-> NilErr]
  /\ qclose = "none"
  /\ hreq = [t \in {"h1"} |-> IdleHandler]
  /\ tickets = 0
  /\ encoded = {}
  /\ late = {}
  /\ inflight = {}
  /\ pct = [e |-> NilEntry]
  /\ NoIdentify /\ NoLocks /\ NoWalk /\ NoAdd /\ NoLookup /\ NoPath /\ NoInfo
  /\ NoCrawl /\ NoRefresh /\ NoPreload

NextPercent ==
  \/ \E t \in DOMAIN hreq, v \in QueueDevices, rel \in {FileC, FileD} :
       DoTranscodeLookup(t, v, rel)
  \/ \E t \in DOMAIN hreq : DoTranscodeIsCached(t)
  \/ \E t \in DOMAIN hreq : DoTranscodeIsTranscoding(t)
  \/ \E t \in DOMAIN hreq : DoTranscodeInfo(t)
  \/ \E t \in DOMAIN hreq : TranscodeSet(t)
  \/ \E t \in DOMAIN hreq : TranscodeSend(t)
  \/ WorkerRecv
  \/ WorkerInfo
  \/ WorkerLock
  \/ \E f \in 1..MaxFrame : EncoderProgress(f)
  \/ \E ok \in BOOLEAN : WorkerTranscodeDone(ok)
  \/ WorkerFinish
  \/ \E e \in DOMAIN entries : CallPercent(e)

SpecPercent == InitPercent /\ [][NextPercent]_vars

\* the string of an integer percentage with one decimal, t being the
\* percentage in tenths
OneDecimal(t) == <<ToString(t \div 10), Dot, ToString(t % 10), "%">>

\* C15: Percent() of an Entry for which the worker completed a successful
\* encode is "100%"; otherwise it is "N/A" when the Entry has no info or the
\* frame count of the video stream is no integer, and else
\* 100*frame/totalFrames with one decimal.
C15_PercentContract ==
  pct.e # NilEntry =>
    IF pct.done # {} THEN pct.ret = <<"100", "%">>
    ELSE IF pct.info = NilInfo THEN pct.ret = <<"N/A">>
    ELSE LET s == Infos[pct.info].NbFrames
         IN IF s \notin {"0", "1", "2", "3"} THEN pct.ret = <<"N/A">>
            ELSE \E t \in 0..(1000 * MaxFrame + 1000) :
                   /\ pct.ret = OneDecimal(t)
                   /\ \A nb \in 1..3 :
                        ToString(nb) = s =>
                          /\ 2 * (t * nb - 1000 * pct.frame) <= nb
                          /\ 2 * (1000 * pct.frame - t * nb) <= nb

-----------------------------------------------------------------------------
(* The crawler: NewCrawler, WatchFiles and handleRefresh *)

MaxPending == 2   \* events the watcher holds before they are received

CrawlFiles == {FileC, FileD}
Ops == {"Create", "Remove", "Write"}

\* the state after NewCatalog, when NewCrawler is entered
InitCrawler ==
  /\ tree = EmptyDir
  /\ entries = EmptyMap
  /\ nextId = 1
  /\ updatingInfos = TRUE
  /\ disk \in SUBSET CrawlFiles
  /\ cacheFiles = {}
  /\ created = 0
  /\ NoIdentify /\ NoLocks /\ NoWalk /\ NoAdd /\ NoLookup /\ NoPath /\ NoInfo
  /\ NoCrawl /\ NoQueue /\ NoRefresh /\ NoPreload

CrawlerFrame ==
  UNCHANGED <<catalogVars, cacheFiles, pc, stack, dirs, found, werr,
              enumCount, observed, removed, swept, created, firstAdd,
              addCalls, lookupVars, pathVars, identVars, lockVars, infoVars, crawlVars, queueVars,
              preloadVars>>

\* c.enumerateEntries() is called by NewCrawler and after the inner loop of
\* handleRefresh
CrawlerEnumBegin ==
  /\ (rpc = "none" /\ enumCount = 0) \/ rpc = "enumerate"
  /\ EnumBegin

\* c.enumerateEntries() returned: NewCrawler starts handleRefresh, and
\* handleRefresh goes back to the head of its outer loop
HandleRefreshLoop ==
  /\ rpc \in {"none", "enumerate"}
  /\ pc = "idle" /\ enumCount > 0
  /\ rpc' = "wait"
  /\ delay' = "none"
  /\ UNCHANGED <<disk, stable, refresh, events, gone, wf, wenv>>
  /\ CrawlerFrame

\* A file under the root is created, removed or written once the crawler
\* exists.  The watcher reports it when it watches the directory of the file.
FsEvent(f, op) ==
  /\ rpc \notin {"none"}
  /\ pc # "panic"
  /\ Len(events) < MaxPending
  /\ IF op = "Create" THEN f \notin disk ELSE f \in disk
  /\ disk' = CASE op = "Create" -> disk \cup {f}
               [] op = "Remove" -> disk \ {f}
               [] OTHER -> disk
  /\ stable' = FALSE
  /\ LET seen == Join(rootDir, Dir(f)) \in watcher
     IN /\ events' = IF seen THEN Append(events, [Name |-> Join(rootDir, f), Op |-> op])
                      ELSE events
        /\ gone' = CASE op = "Create" -> gone \ {f}
                     [] op = "Remove" /\ seen -> gone \cup {f}
                     [] OTHER -> gone
  /\ UNCHANGED <<refresh, rpc, delay, wf, wenv>>
  /\ CrawlerFrame

\* os.Executable()
exePath == <<Slash, "bin", Slash, "serve-mp4">>

\* WatchFiles up to its loop: os.Executable, os.Stat (mod0 is captured) and
\* c.watcher.Add(exePath) succeed
WatchFilesStart ==
  /\ rpc # "none"
  /\ wf.at = "none"
  /\ wf' = [wf EXCEPT !.at = "select"]
  /\ UNCHANGED <<disk, stable, refresh, events, rpc, delay, gone, wenv>>
  /\ CrawlerFrame

\* what WatchFiles does with the event e it received, stat being the outcome
\* of os.Stat(exePath): "gone" for an error, else whether ModTime is mod0
onEvent(w, e, stat) ==
  IF e.Op = "Write" THEN w
  ELSE IF e.Name = exePath
  THEN IF stat = "gone" THEN [w EXCEPT !.err = "stat"]
       ELSE IF stat = "changed"
       THEN [w EXCEPT !.err = "nil", !.at = "returned", !.ret = "nil"]
       ELSE [w EXCEPT !.err = "nil"]
  ELSE [w EXCEPT !.at = "send"]

\* WatchFiles: case e := <-c.watcher.Events, up to the send on c.refresh
WatchFilesEvent ==
  /\ wf.at = "select"
  /\ events # <<>>
  /\ events' = Tail(events)
  /\ wf' = onEvent(wf, Head(events), wenv.exe)
  /\ UNCHANGED <<disk, stable, refresh, rpc, delay, gone, wenv>>
  /\ CrawlerFrame

\* WatchFiles: c.refresh <- true, which waits while the channel is full
WatchFilesSend ==
  /\ wf.at = "send"
  /\ refresh < MaxSignals
  /\ refresh' = refresh + 1
  /\ wf' = [wf EXCEPT !.at = "select"]
  /\ UNCHANGED <<disk, stable, events, rpc, delay, gone, wenv>>
  /\ CrawlerFrame

\* handleRefresh: <-refresh of the outer loop, then time.After
HandleRefreshWait ==
  /\ rpc = "wait"
  /\ refresh > 0
  /\ refresh' = refresh - 1
  /\ delay' = "armed"
  /\ rpc' = "select"
  /\ UNCHANGED <<disk, stable, events, gone, wf, wenv>>
  /\ CrawlerFrame

\* the timer of time.After sends on delay
TimerFire ==
  /\ delay = "armed"
  /\ delay' = "fired"
  /\ UNCHANGED <<disk, stable, refresh, events, rpc, gone, wf, wenv>>
  /\ CrawlerFrame

\* where handleRefresh is after the break of case <-delay: break leaves the
\* select statement, and the inner for has no other exit
afterBreak == "select"

\* handleRefresh: one round of the select of the inner loop
HandleRefreshSelect(c) ==
  /\ rpc = "select"
  /\ IF c = "refresh"
     THEN /\ refresh > 0
          /\ refresh' = refresh - 1
          /\ UNCHANGED <<rpc, delay>>
     ELSE /\ delay = "fired"
          /\ delay' = "drained"
          /\ rpc' = afterBreak
          /\ UNCHANGED refresh
  /\ UNCHANGED <<disk, stable, events, gone, wf, wenv>>
  /\ CrawlerFrame

NextCrawler ==
  \/ CrawlerEnumBegin
  \/ WalkStep
  \/ EnumEnd
  \/ Reconcile
  \/ HandleRefreshLoop
  \/ \E f \in CrawlFiles, op \in Ops : FsEvent(f, op)
  \/ WatchFilesStart
  \/ WatchFilesEvent
  \/ WatchFilesSend
  \/ HandleRefreshWait
  \/ TimerFire
  \/ \E c \in {"refresh", "delay"} : HandleRefreshSelect(c)

SpecCrawler == InitCrawler /\ [][NextCrawler]_vars

\* Every goroutine that can take a step eventually takes one, and the timer
\* fires; select chooses at random among the cases that are ready, so a case
\* that is ready again and again is eventually chosen.  The file system is
\* free to stay as it is.
FairCrawler ==
  /\ WF_vars(CrawlerEnumBegin) /\ WF_vars(WalkStep) /\ WF_vars(EnumEnd)
  /\ WF_vars(Reconcile) /\ WF_vars(HandleRefreshLoop)
  /\ WF_vars(WatchFilesStart) /\ WF_vars(WatchFilesEvent)
  /\ WF_vars(WatchFilesSend) /\ WF_vars(HandleRefreshWait)
  /\ WF_vars(TimerFire)
  /\ SF_vars(HandleRefreshSelect("refresh"))
  /\ SF_vars(HandleRefreshSelect("delay"))

SpecCrawlerFair == InitCrawler /\ [][NextCrawler]_vars /\ FairCrawler

\* C16: every refresh signal the debounce loop receives is eventually
\* followed by an enumeration, and a file that was removed with a non-write
\* event emitted is eventually not found by LookupEntry (unless it is
\* created again).
C16_RefreshLeadsToEnumeration ==
  /\ (rpc = "select") ~> (rpc = "enumerate")
  /\ \A f \in CrawlFiles :
       (f \in gone) ~> (f \notin gone \/ LookupEntry(tree, f) = NilEntry)

\* C17: a signal is received by the inner loop only while the timer of its
\* window has not been consumed: a signal received later is absorbed by a
\* window that produces no enumeration any more.
SignalStep ==
  (rpc = "select" /\ refresh' < refresh) => delay # "drained"

C17_NoSignalLost == [][SignalStep]_vars

-----------------------------------------------------------------------------
(* WatchFiles with the events of the executable, errors and the interrupt *)

ExeOps == {"Write", "Chmod", "Remove"}

\* The executable is written, touched or removed; the watcher, which watches
\* exePath since WatchFiles started, reports it.
ExeEvent(op) ==
  /\ wf.at # "none"
  /\ wenv.exe # "gone"
  /\ Len(events) < MaxPending
  /\ events' = Append(events, [Name |-> exePath, Op |-> op])
  /\ wenv' = [wenv EXCEPT !.exe = CASE op = "Write" -> "changed"
                                    [] op = "Remove" -> "gone"
                                    [] OTHER -> @]
  /\ UNCHANGED <<disk, stable, refresh, rpc, delay, gone, wf>>
  /\ CrawlerFrame

\* the watcher reports an error on watcher.Errors
WatcherError ==
  /\ wf.at # "none"
  /\ wenv.errors = 0
  /\ wenv' = [wenv EXCEPT !.errors = 1]
  /\ UNCHANGED <<disk, stable, refresh, events, rpc, delay, gone, wf>>
  /\ CrawlerFrame

\* Ctrl-C: interrupt.Channel is closed
Interrupt ==
  /\ wf.at # "none"
  /\ ~wenv.interrupt
  /\ wenv' = [wenv EXCEPT !.interrupt = TRUE]
  /\ UNCHANGED <<disk, stable, refresh, events, rpc, delay, gone, wf>>
  /\ CrawlerFrame

\* WatchFiles: case <-interrupt.Channel returns the local err
WatchFilesInterrupt ==
  /\ wf.at = "select"
  /\ wenv.interrupt
  /\ wf' = [wf EXCEPT !.at = "returned", !.ret = wf.err]
  /\ UNCHANGED <<disk, stable, refresh, events, rpc, delay, gone, wenv>>
  /\ CrawlerFrame

\* WatchFiles: case err = <-c.watcher.Errors returns it
WatchFilesError ==
  /\ wf.at = "select"
  /\ wenv.errors > 0
  /\ wenv' = [wenv EXCEPT !.errors = 0]
  /\ wf' = [wf EXCEPT !.at = "returned", !.err = "watcher", !.ret = "watcher"]
  /\ UNCHANGED <<disk, stable, refresh, events, rpc, delay, gone>>
  /\ CrawlerFrame

NextWatch ==
  \/ NextCrawler
  \/ \E op \in ExeOps : ExeEvent(op)
  \/ WatcherError
  \/ Interrupt
  \/ WatchFilesInterrupt
  \/ WatchFilesError

SpecWatch == InitCrawler /\ [][NextWatch]_vars

\* WatchFiles receives an event of the executable whose modification time
\* is no longer the one of the start: it returns nil
ExeChangedStep ==
  (/\ wf.at = "select" /\ events # <<>> /\ events' = Tail(events)
   /\ Head(events).Name = exePath /\ wenv.exe = "changed")
    => (wf'.at = "returned" /\ wf'.ret = "nil")

\* an event of the executable leaves c.refresh as it is and does not lead to
\* the send
ExeNoSignalStep ==
  (/\ wf.at = "select" /\ events # <<>> /\ events' = Tail(events)
   /\ Head(events).Name = exePath)
    => (refresh' = refresh /\ wf'.at # "send")

\* C21: an event that names the executable, whatever its operation, makes
\* WatchFiles return nil when the modification time of the executable is not
\* the one captured at the start; an event of the executable never puts a
\* signal on c.refresh; and WatchFiles returns a non-nil error only for a
\* watcher error.
C21_ExecutableRestart ==
  /\ [][ExeChangedStep]_vars
  /\ [][ExeNoSignalStep]_vars
  /\ [](wf.at = "returned" => wf.ret \in {"nil", "watcher"})

\* C22: the watcher loop never waits on c.refresh: WatchFiles is never at
\* its send with the channel full (the signal would be dropped); and the
\* step that receives an event puts a signal on the channel for a
\* non-write event of another path, and nothing for a write event.
C22_SendNeverBlocks == ~(wf.at = "send" /\ refresh = MaxSignals)

-----------------------------------------------------------------------------
(* The preload of the metadata: crawler.enumerateEntries and preloadInfos *)

PreloadFiles == {FileC, FileD}

\* the state after NewCatalog, over a root that does not change
InitPreload ==
  /\ tree = EmptyDir
  /\ entries = EmptyMap
  /\ nextId = 1
  /\ updatingInfos = TRUE
  /\ disk \in SUBSET PreloadFiles
  /\ cacheFiles = {}
  /\ created = 0
  /\ NoIdentify /\ NoLocks /\ NoWalk /\ NoAdd /\ NoLookup /\ NoPath /\ NoInfo
  /\ NoCrawl /\ NoQueue /\ NoRefresh /\ NoPreload

\* filepath.Walk visits the first path of st.stack
walkOne(dk, cache, st) ==
  LET p == Head(st.stack)
      s == lstat(dk, p)
      r == walkFn(p, s)
      c == addFile(st.tree, st.entries, st.nextId, p, cache)
  IN [stack |-> walkRest(dk, p, s, r, Tail(st.stack)),
      dirs |-> IF r = "dir" THEN Append(st.dirs, p) ELSE st.dirs,
      tree |-> IF r = "addFile" THEN c.tree ELSE st.tree,
      entries |-> IF r = "addFile" THEN c.entries ELSE st.entries,
      nextId |-> IF r = "addFile" THEN c.nextId ELSE st.nextId]

\* filepath.Walk over a root that does not change meanwhile
RECURSIVE walkAll(_, _, _)
walkAll(dk, cache, st) ==
  IF st.stack = <<>> THEN st
  ELSE Only({ walkAll(dk, cache, n) : n \in {walkOne(dk, cache, st)} })

\* catalog.enumerateEntries over a root that does not change meanwhile: the
\* catalog after it, and the directories it returns
enumerateEntries(dk, cache, t, es, nid) ==
  Only({ [tree |-> trimCold(st.tree, st.entries),
          entries |-> [i \in EntriesOf(trimCold(st.tree, st.entries)) |-> st.entries[i]],
          nextId |-> st.nextId,
          dirs |-> st.dirs] :
           st \in { walkAll(dk, cache,
                            [stack |-> << <<>> >>, dirs |-> <<>>, tree |-> t,
                             entries |-> resetCold(t, es), nextId |-> nid]) } })

\* the goroutine preloadInfos(stamp) when go starts it; after and probed
\* count the findEntryToPreload calls and the probes it makes once
\* c.lastUpdate is no longer its stamp (2 stands for "two or more")
NewWorker == [at |-> "check", e |-> NilEntry, after |-> 0, probed |-> 0]

\* variant: the stamp is not compared
stop_never(stamp, last) == FALSE

\* the local stop of preloadInfos
stop(stamp, last) == stamp # last

\* Directory.findEntryToPreload: the Entries it can return, the order of a
\* range over a map being any; none stands for nil
RECURSIVE findEntryToPreload(_, _)
findEntryToPreload(d, es) ==
  LET here == { e \in Range(d.Items) : es[e].info = NilInfo }
  IN IF here # {} THEN here
     ELSE UNION { findEntryToPreload(d.Subdirs[n], es) : n \in DOMAIN d.Subdirs }

Saturate(n) == IF n >= 2 THEN 2 ELSE n

PreloadFrame ==
  UNCHANGED <<disk, cacheFiles, pc, stack, found, werr, enumCount, observed,
              removed, swept, stable, created, firstAdd, addCalls,
              lookupVars, pathVars, identVars, lockVars, ipc, iret, queueVars, refreshVars>>

\* crawler.enumerateEntries, called by NewCrawler and, later, for a refresh:
\* the catalog is enumerated, the watched directories are reconciled,
\* lastUpdate is set and preloadInfos is started with it
CrawlerEnumerateEntries ==
  /\ pc # "panic"
  /\ lastUpdate < MaxStamps
  /\ \E c \in {enumerateEntries(disk, cacheFiles, tree, entries, nextId)} :
       /\ tree' = c.tree
       /\ entries' = c.entries
       /\ nextId' = c.nextId
       /\ dirs' = c.dirs
       /\ emu' = [e \in DOMAIN c.entries |-> MapGet(emu, e, "free")]
       /\ probes' = [e \in DOMAIN c.entries |-> MapGet(probes, e, 0)]
       /\ \E r \in {reconcile(watchedDirs, watcher, c.dirs)} :
            /\ watchedDirs' = r.watchedDirs
            /\ watcher' = r.watcher
            /\ lastUpdate' = lastUpdate + 1
            /\ workers' = Append(workers, NewWorker)
  /\ updatingInfos' = TRUE
  /\ UNCHANGED <<disk, cacheFiles, pc, stack, found, werr, enumCount,
                 observed, removed, swept, stable, created, firstAdd,
                 addCalls, lookupVars, pathVars, identVars, lockVars, ipc, iret, queueVars,
                 refreshVars, crawlerUpdatingInfos>>

\* preloadInfos: stamp != c.lastUpdate is read under c.mu
PreloadCheck(w) ==
  /\ workers[w].at = "check"
  /\ workers' = [workers EXCEPT ![w].at =
                   IF stop(w, lastUpdate) THEN "stopped" ELSE "find"]
  /\ UNCHANGED <<catalogVars, dirs, emu, probes, crawlVars,
                 crawlerUpdatingInfos>>
  /\ PreloadFrame

\* preloadInfos: e := c.c.findEntryToPreload()
PreloadFind(w, e) ==
  /\ workers[w].at = "find"
  /\ IF findEntryToPreload(tree, entries) = {} THEN e = NilEntry
     ELSE e \in findEntryToPreload(tree, entries)
  /\ workers' = [workers EXCEPT
       ![w].at = IF e = NilEntry THEN "finish" ELSE "Info",
       ![w].e = e,
       ![w].after = IF w # lastUpdate THEN Saturate(@ + 1) ELSE @]
  /\ UNCHANGED <<catalogVars, dirs, emu, probes, crawlVars,
                 crawlerUpdatingInfos>>
  /\ PreloadFrame

\* preloadInfos: e.Info() takes e.mu and either starts vid.Identify or
\* returns at once
PreloadInfo(w) ==
  /\ workers[w].at = "Info"
  /\ emu[workers[w].e] = "free"
  /\ IF needProbe(entries[workers[w].e])
     THEN /\ emu' = [emu EXCEPT ![workers[w].e] = "preloadInfos"]
          /\ probes' = [probes EXCEPT ![workers[w].e] = @ + 1]
          /\ workers' = [workers EXCEPT
               ![w].at = "Identify",
               ![w].probed = IF w # lastUpdate THEN Saturate(@ + 1) ELSE @]
     ELSE /\ workers' = [workers EXCEPT ![w].at = "check", ![w].e = NilEntry]
          /\ UNCHANGED <<emu, probes>>
  /\ UNCHANGED <<catalogVars, dirs, crawlVars, crawlerUpdatingInfos>>
  /\ PreloadFrame

\* vid.Identify returns, e.info and e.err are stored and e.mu is released
PreloadIdentifyDone(w, ok) ==
  /\ workers[w].at = "Identify"
  /\ entries' = [entries EXCEPT
       ![workers[w].e].info = IF ok THEN probes[workers[w].e] ELSE NilInfo,
       ![workers[w].e].err = IF ok THEN NilErr ELSE 1]
  /\ emu' = [emu EXCEPT ![workers[w].e] = "free"]
  /\ workers' = [workers EXCEPT ![w].at = "check", ![w].e = NilEntry]
  /\ UNCHANGED <<tree, nextId, updatingInfos, dirs, probes, crawlVars,
                 crawlerUpdatingInfos>>
  /\ PreloadFrame

\* preloadInfos after the loop: c.updatingInfos = false
PreloadFinish(w) ==
  /\ workers[w].at = "finish"
  /\ crawlerUpdatingInfos' = FALSE
  /\ workers' = [workers EXCEPT ![w].at = "done"]
  /\ UNCHANGED <<catalogVars, dirs, emu, probes, crawlVars>>
  /\ PreloadFrame

NextPreload ==
  \/ CrawlerEnumerateEntries
  \/ \E w \in DOMAIN workers : PreloadCheck(w)
  \/ \E w \in DOMAIN workers, e \in DOMAIN entries \cup {NilEntry} : PreloadFind(w, e)
  \/ \E w \in DOMAIN workers : PreloadInfo(w)
  \/ \E w \in DOMAIN workers, ok \in BOOLEAN : PreloadIdentifyDone(w, ok)
  \/ \E w \in DOMAIN workers : PreloadFinish(w)

SpecPreload == InitPreload /\ [][NextPreload]_vars

\* a step of the goroutine preloadInfos(w)
PreloadStep(w) ==
  /\ w \in DOMAIN workers
  /\ \/ PreloadCheck(w)
     \/ \E e \in DOMAIN entries \cup {NilEntry} : PreloadFind(w, e)
     \/ PreloadInfo(w)
     \/ \E ok \in BOOLEAN : PreloadIdentifyDone(w, ok)
     \/ PreloadFinish(w)

\* every goroutine preloadInfos that can take a step eventually takes one,
\* and vid.Identify returns; nothing forces a further enumeration
FairPreload == \A w \in 1..MaxStamps : WF_vars(PreloadStep(w))

SpecPreloadFair == InitPreload /\ [][NextPreload]_vars /\ FairPreload

\* C18: once lastUpdate is no longer the stamp of a running preloadInfos,
\* that goroutine calls findEntryToPreload at most once more and starts at
\* most one more probe, and then it exits.
StaleWorkerBound ==
  \A w \in DOMAIN workers : workers[w].after <= 1 /\ workers[w].probed <= 1

C18_StaleWorkerStops ==
  /\ []StaleWorkerBound
  /\ \A w \in 1..MaxStamps :
       (w \in DOMAIN workers /\ w # lastUpdate)
         ~> (w \in DOMAIN workers /\ workers[w].at \in {"stopped", "done"})

\* a goroutine overtaken by a newer stamp has made one further
\* findEntryToPreload call and one further probe, and has exited
C18_Witness ==
  \E w \in DOMAIN workers :
    /\ w # lastUpdate
    /\ workers[w].after = 1 /\ workers[w].probed = 1
    /\ workers[w].at = "stopped"

\* findEntryToPreload returns an Entry to the goroutine preloadInfos(w): it
\* has read the field info of that Entry
FindReadStep(w) ==
  /\ w \in DOMAIN workers
  /\ workers[w].at = "find"
  /\ workers'[w].at = "Info"

\* C31: the fields info and err of an Entry are read and written under the
\* lock of the Entry: findEntryToPreload does not read the info of an Entry
\* while another thread is inside Info() of that Entry, holding its lock to
\* write the field.
C31_InfoReadUnderLock ==
  [][\A w \in 1..MaxStamps :
       FindReadStep(w) => emu[workers'[w].e] = "free"]_vars

\* C33: the flag updatingInfos of the catalog is true from the start of an
\* enumeration until the preloadInfos started for that enumeration has found
\* no Entry left, and false from then until the next enumeration.
C33_UpdatingInfosTracksPreload ==
  lastUpdate \in DOMAIN workers =>
    (updatingInfos = FALSE <=> workers[lastUpdate].at = "done")

\* a further enumeration over the same files
Reenumeration == lastUpdate >= 1 /\ lastUpdate' = lastUpdate + 1

\* C34: an enumeration over files that did not change leaves the catalog as
\* it was: the same tree with the same Entry objects, each with its info, err,
\* cached, transcoding and frame, none made anew and none cold.
C34_ReenumerationKeepsCatalog ==
  [][Reenumeration =>
       /\ tree' = tree
       /\ nextId' = nextId
       /\ entries' = entries
       /\ \A i \in DOMAIN entries' : ~entries'[i].cold]_vars

\* the second enumeration has run over Entries the first preloadInfos had
\* probed before it
C34_Witness ==
  /\ lastUpdate = 2
  /\ workers[1].at = "done" /\ workers[1].after = 0
  /\ Cardinality(DOMAIN entries) >= 2
  /\ \A i \in DOMAIN entries : entries[i].info # NilInfo /\ ~entries[i].cold

\* C19: when no further refresh happens, the preload pass of the last
\* enumeration terminates: findEntryToPreload returns nil, updatingInfos is
\* set to false and the goroutine exits, also when a probe fails.
C19_PreloadTerminates ==
  \A k \in 1..MaxStamps :
    <>[](lastUpdate = k) =>
      <>(/\ k \in DOMAIN workers
         /\ workers[k].at = "done"
         /\ crawlerUpdatingInfos = FALSE)

-----------------------------------------------------------------------------
(* The cache bits while the queue encodes and the root is enumerated again *)

\* a/d.mp4: the source file that differs from a/d.mkv in its extension
FileF == <<"a", "/", "d", ".", "mp4">>

CacheRels == <<FileD>>

\* NewCatalog, the first enumeration over a/d.mkv and NewTranscodingQueue
InitCache ==
  /\ LET c == BuildTree([tree |-> EmptyDir, entries |-> EmptyMap, nextId |-> 1],
                        CacheRels)
     IN /\ tree = c.tree
        /\ entries = c.entries
        /\ nextId = c.nextId
        /\ created = c.nextId - 1
  /\ updatingInfos = TRUE
  /\ disk = {CacheRels[1]}
  /\ cacheFiles = {}
  /\ queue = <<>>
  /\ tmu = "free"
  /\ wpc = "recv"
  /\ wreq = NilReq
  /\ wres = [i |-> NilInfo, err |-> NilErr]
  /\ qclose = "idle"
  /\ hreq = [t \in Handlers |-> IdleHandler]
  /\ tickets = 0
  /\ encoded = {}
  /\ late = {}
  /\ inflight = {}
  /\ pct = [e |-> NilEntry]
  /\ NoIdentify /\ NoLocks /\ NoWalk /\ NoAdd /\ NoLookup /\ NoPath /\ NoInfo
  /\ NoCrawl /\ NoRefresh /\ NoPreload

\* the file a/d.mp4 appears under the root
CacheFsCreate ==
  /\ FileF \notin disk
  /\ disk' = disk \cup {FileF}
  /\ UNCHANGED <<catalogVars, cacheFiles, walkVars, created, firstAdd, addCalls,
                 lookupVars, pathVars, identVars, lockVars, infoVars,
                 serviceVars>>

\* catalog.enumerateEntries, run again after a file appeared: addFile makes
\* the Entry of the new file and looks for its renditions in the cache
CacheEnumerate ==
  /\ \E f \in disk : LookupEntry(tree, f) = NilEntry
  /\ \E c \in {enumerateEntries(disk, cacheFiles, tree, entries, nextId)} :
       /\ tree' = c.tree
       /\ entries' = c.entries
       /\ nextId' = c.nextId
  /\ updatingInfos' = TRUE
  /\ UNCHANGED <<disk, cacheFiles, walkVars, created, firstAdd, addCalls,
                 lookupVars, pathVars, identVars, lockVars, infoVars,
                 serviceVars>>

NextCache ==
  \/ \E t \in Handlers, v \in QueueDevices, rel \in {FileD, FileF} :
       DoTranscodeLookup(t, v, rel)
  \/ \E t \in Handlers : DoTranscodeIsCached(t)
  \/ \E t \in Handlers : DoTranscodeIsTranscoding(t)
  \/ \E t \in Handlers : DoTranscodeInfo(t)
  \/ \E t \in Handlers : TranscodeSet(t)
  \/ \E t \in Handlers : TranscodeSend(t)
  \/ WorkerRecv
  \/ WorkerInfo
  \/ WorkerLock
  \/ \E f \in 1..MaxFrame : EncoderProgress(f)
  \/ \E ok \in BOOLEAN : WorkerTranscodeDone(ok)
  \/ WorkerFinish
  \/ CacheFsCreate
  \/ CacheEnumerate

SpecCache == InitCache /\ [][NextCache]_vars

\* the encoder is running and writes the file at the cache path p
Writing(p) ==
  /\ wpc = "TranscodeMP4"
  /\ toCachedPath(entries[wreq.e].Rel, wreq.v) = p

\* C37: whenever cached[d] of an Entry is true, a complete rendition is at
\* the cache path of the Entry for d: the file is there and no encoder is
\* writing it.
C37_CachedMeansComplete ==
  \A e \in DOMAIN entries :
    \A d \in entries[e].cached :
      /\ toCachedPath(entries[e].Rel, d) \in cacheFiles
      /\ ~Writing(toCachedPath(entries[e].Rel, d))

-----------------------------------------------------------------------------
(* LookupDir and Transcode calls between the steps of the enumeration *)

SnapDirs == { <<>>, <<"a">>, <<"a", "/", "b">> }

\* variant: LookupDir returns the Directory of the tree itself
LookupDirResult_sameMaps(t, rel) == [d |-> lookupDir(t, rel), shares |-> rel]

\* what the caller of catalog.LookupDir holds: out, with the maps Items and
\* Subdirs made for it
LookupDirResult(t, rel) == [d |-> LookupDir(t, rel), shares |-> NoShare]

\* the Directory read through a result of LookupDir while the tree is t: maps
\* of its own keep what was copied into them, maps of the tree are the tree's
Deref(r, t) ==
  IF r.shares = NoShare \/ r.d = NilDir THEN r.d
  ELSE LET x == lookupDir(t, r.shares)
       IN IF x = NilDir THEN EmptyDir ELSE x

InitSnapshot ==
  /\ Init
  /\ cacheFiles = {}
  /\ disk \subseteq {FileC, FileD}

\* serveBrowse: s.c.LookupDir(rel), under c.mu.RLock
SnapLookupDir(rel) ==
  /\ snap = NoSnap
  /\ snap' = LookupDirResult(tree, rel)
  /\ lq' = rel
  /\ UNCHANGED serviceVars
  /\ UNCHANGED <<catalogVars, disk, cacheFiles, walkVars, created, firstAdd,
                 addCalls, lop, ldir, lentry, pathVars, identVars, lockVars, infoVars>>

\* doTranscode: s.c.LookupEntry(rel), then transcodingQueue.Transcode sets
\* the flag of the catalog's Entry
SnapTranscode(rel) ==
  /\ snap.d # NilDir
  /\ LET e == LookupEntry(tree, rel)
     IN /\ e # NilEntry
        /\ ~entries[e].transcoding
        /\ entries' = [entries EXCEPT ![e].transcoding = TRUE]
  /\ UNCHANGED serviceVars
  /\ UNCHANGED <<tree, nextId, updatingInfos, disk, cacheFiles, walkVars,
                 created, firstAdd, addCalls, lookupVars, pathVars, identVars, lockVars, infoVars>>

\* the methods serveBrowse and its template call on the Directory
SnapMethods == {"StillLoading", "TotalItems"}

\* d.StillLoading() or d.TotalItems() is called on the Directory LookupDir
\* returned, c.mu not held: it ranges over the maps of d and, through
\* d.Subdirs, over those of every Directory below.  (A call on a Directory
\* without sub-directories reads the two maps LookupDir made and no other.)
SnapCall(op) ==
  /\ snap.d # NilDir
  /\ DOMAIN snap.d.Subdirs # {}
  /\ lop = "none"
  /\ lop' = op
  /\ UNCHANGED serviceVars
  /\ UNCHANGED <<catalogVars, disk, cacheFiles, walkVars, created, firstAdd,
                 addCalls, lq, ldir, lentry, snap, pathVars, identVars,
                 lockVars, infoVars>>

\* the method returns
SnapReturn ==
  /\ lop \in SnapMethods
  /\ lop' = "none"
  /\ UNCHANGED serviceVars
  /\ UNCHANGED <<catalogVars, disk, cacheFiles, walkVars, created, firstAdd,
                 addCalls, lq, ldir, lentry, snap, pathVars, identVars,
                 lockVars, infoVars>>

NextSnapshot ==
  \/ Next
  \/ \E rel \in SnapDirs : SnapLookupDir(rel)
  \/ \E rel \in Files : SnapTranscode(rel)
  \/ \E op \in SnapMethods : SnapCall(op)
  \/ SnapReturn

SpecSnapshot == InitSnapshot /\ [][NextSnapshot]_vars

ReaderStep == snap' # snap

\* C30: the enumeration holds the write lock of the catalog from before
\* resetCold until after trimCold: no LookupDir call runs while the walk of
\* an enumeration is between its marking and its sweep.
C30_NoReaderDuringWalk == [][ReaderStep => pc # "walk"]_vars

\* the Directory objects of the tree that the values of snap.d.Subdirs point
\* to, and those below them, by their paths
SharedDirs ==
  IF snap.d = NilDir THEN {}
  ELSE { D \in FileDirs :
           \E k \in DOMAIN snap.d.Subdirs :
             \E r \in {IF lq = <<>> THEN k ELSE Join(lq, k)} :
               D = r \/ Under(r, D) }

\* the Directory objects of the tree t with a map that has other keys in t2
Written(t, t2) ==
  { D \in FileDirs :
      /\ lookupDir(t, D) # NilDir
      /\ \/ lookupDir(t2, D) = NilDir
         \/ DOMAIN lookupDir(t, D).Items # DOMAIN lookupDir(t2, D).Items
         \/ DOMAIN lookupDir(t, D).Subdirs # DOMAIN lookupDir(t2, D).Subdirs }

\* C39: while StillLoading or TotalItems runs on a Directory LookupDir
\* returned, the enumeration writes no map these methods read.  (As long as
\* no sweep has removed anything, a Directory of the tree is the object it
\* was when LookupDir ran.)
C39_NoSharedMapRace ==
  [][(lop \in SnapMethods /\ removed' = 0) =>
       Written(tree, tree') \cap SharedDirs = {}]_vars

-----------------------------------------------------------------------------
(* vid.Identify on the output of ffprobe, and what is called on its result *)

MaxStreams == 3

Langs == {"eng", "fre"}

\* the streams ffprobe may report; shift is no field of the source: it is
\* what the field Index of the stream is off from the place of the stream
VideoKinds ==
  { [CodecType |-> "video", CodecName |-> "h264", NbFrames |-> nb,
     Tags |-> EmptyMap, shift |-> sh] :
      nb \in {"2", "N/A"}, sh \in {0, MaxStreams} }
  \cup { [CodecType |-> "video", CodecName |-> "mjpeg", NbFrames |-> "1",
          Tags |-> ("mimetype" :> "image/jpeg"), shift |-> 0] }
AudioKinds ==
  { [CodecType |-> "audio", CodecName |-> c, NbFrames |-> "N/A",
     Tags |-> t, shift |-> 0] :
      c \in {"", "aac"},
      t \in {EmptyMap} \cup { ("language" :> l) : l \in Langs } }
OtherKinds ==
  { [CodecType |-> ct, CodecName |-> "", NbFrames |-> "N/A",
     Tags |-> EmptyMap, shift |-> 0] : ct \in {"subtitle", "attachment"} }
StreamKinds == VideoKinds \cup AudioKinds \cup OtherKinds

\* ProbeResult.Streams as json.Unmarshal fills it
ProbeStreams(kinds) ==
  [i \in 1..Len(kinds) |->
     [Index |-> i - 1 + kinds[i].shift, CodecType |-> kinds[i].CodecType,
      CodecName |-> kinds[i].CodecName, NbFrames |-> kinds[i].NbFrames,
      Tags |-> kinds[i].Tags]]

\* the errors of Identify
ErrUnknownStream == 1
ErrTooManyVideo == 2
ErrNoVideo == 3

\* Identify: the loop over out.Raw.Streams from the stream at place i on
\* (places are counted from 0 in the slices audios and videos)
RECURSIVE classify(_, _, _, _)
classify(ss, i, audios, videos) ==
  IF i > Len(ss) THEN [err |-> NilErr, audios |-> audios, videos |-> videos]
  ELSE CASE ss[i].CodecType = "video" ->
              IF MapGet(ss[i].Tags, "mimetype", "") = "image/jpeg"
              THEN classify(ss, i + 1, audios, videos)
              ELSE classify(ss, i + 1, audios, Append(videos, i - 1))
         [] ss[i].CodecType = "audio" ->
              IF ss[i].CodecName # ""
              THEN classify(ss, i + 1, Append(audios, i - 1), videos)
              ELSE classify(ss, i + 1, audios, videos)
         [] ss[i].CodecType \in {"data", "subtitle"} ->
              classify(ss, i + 1, audios, videos)
         [] OTHER -> [err |-> ErrUnknownStream, audios |-> audios,
                      videos |-> videos]

\* variant: every audio stream replaces the one chosen before it
RECURSIVE chooseAudio_last(_, _, _, _)
chooseAudio_last(out, ss, audios, lang) ==
  IF audios = <<>> THEN out
  ELSE chooseAudio_last([out EXCEPT !.AudioIndex = ss[Head(audios) + 1].Index,
                                    !.AudioCodec = ss[Head(audios) + 1].CodecName,
                                    !.AudioLang = MapGet(ss[Head(audios) + 1].Tags,
                                                         "language", "")],
                        ss, Tail(audios), lang)

\* Identify: the loop over audios
RECURSIVE chooseAudio(_, _, _, _)
chooseAudio(out, ss, audios, lang) ==
  IF audios = <<>> THEN out
  ELSE chooseAudio(IF out.AudioLang = lang THEN out
                   ELSE [out EXCEPT !.AudioIndex = ss[Head(audios) + 1].Index,
                                    !.AudioCodec = ss[Head(audios) + 1].CodecName,
                                    !.AudioLang = MapGet(ss[Head(audios) + 1].Tags,
                                                         "language", "")],
                   ss, Tail(audios), lang)

\* vid.Identify after ffmpeg.Probe returned the streams ss (Format and the
\* duration are left out)
identify(ss, lang) ==
  LET c == classify(ss, 1, <<>>, <<>>)
  IN IF c.err # NilErr THEN [info |-> NilInfoRec, err |-> c.err]
     ELSE IF Len(c.videos) > 1 THEN [info |-> NilInfoRec, err |-> ErrTooManyVideo]
     ELSE IF Len(c.videos) = 0 THEN [info |-> NilInfoRec, err |-> ErrNoVideo]
     ELSE [info |-> chooseAudio([VideoIndex |-> ss[c.videos[1] + 1].Index,
                                 VideoCodec |-> ss[c.videos[1] + 1].CodecName,
                                 AudioIndex |-> 0, AudioCodec |-> "",
                                 AudioLang |-> "", Raw |-> ss],
                                ss, c.audios, lang),
           err |-> NilErr]

\* Entry.Percent with v the value of e.Info() and f the frame of the Entry;
\* fault: the index of v.Raw.Streams is out of range
percentOf(v, f) ==
  IF v = NilInfoRec THEN [ret |-> <<"N/A">>, fault |-> FALSE]
  ELSE IF v.VideoIndex \notin 0..(Len(v.Raw) - 1)
  THEN [ret |-> <<>>, fault |-> TRUE]
  ELSE LET a == Atoi(v.Raw[v.VideoIndex + 1].NbFrames)
       IN IF a.err # NilErr THEN [ret |-> <<"N/A">>, fault |-> FALSE]
          ELSE [ret |-> Sprintf31(f, a.n), fault |-> FALSE]

InitIdentify ==
  /\ tree = EmptyDir
  /\ entries = EmptyMap
  /\ nextId = 1
  /\ updatingInfos = TRUE
  /\ disk = {}
  /\ cacheFiles = {}
  /\ created = 0
  /\ \E kinds \in UNION { [1..n -> StreamKinds] : n \in 0..MaxStreams } :
       \E lang \in Langs \cup {""} :
         probe = [Streams |-> ProbeStreams(kinds), lang |-> lang]
  /\ ident = [at |-> "none", info |-> NilInfoRec, err |-> NilErr,
              ret |-> <<>>, fault |-> FALSE]
  /\ NoLocks /\ NoWalk /\ NoAdd /\ NoLookup /\ NoPath /\ NoInfo
  /\ NoCrawl /\ NoQueue /\ NoRefresh /\ NoPreload

IdentFrame ==
  UNCHANGED <<catalogVars, disk, cacheFiles, walkVars, created, firstAdd,
              addCalls, lookupVars, pathVars, infoVars, serviceVars, probe,
              lockVars>>

\* Entry.Info: vid.Identify(s, e.preferredLang)
CallIdentify ==
  /\ ident.at = "none"
  /\ LET r == identify(probe.Streams, probe.lang)
     IN ident' = [ident EXCEPT !.at = "Identify", !.info = r.info,
                               !.err = r.err]
  /\ IdentFrame

\* Entry.Percent
IdentPercent(f) ==
  /\ ident.at = "Identify"
  /\ LET r == percentOf(ident.info, f)
     IN ident' = [ident EXCEPT !.at = "Percent", !.ret = r.ret,
                               !.fault = r.fault]
  /\ IdentFrame

\* transcodingQueue.run: r.v.TranscodeMP4(r.e.srcFile(), path, i, p) reads
\* v.VideoIndex; fault: v is nil
IdentRun ==
  /\ ident.at = "Identify"
  /\ ident' = [ident EXCEPT !.at = "run", !.fault = (ident.info = NilInfoRec)]
  /\ IdentFrame

NextIdentify ==
  \/ CallIdentify
  \/ \E f \in 0..MaxFrame : IdentPercent(f)
  \/ IdentRun

SpecIdentify == InitIdentify /\ [][NextIdentify]_vars

\* the places of the audio streams of the probe
AudioStreams ==
  { i \in 1..Len(probe.Streams) : probe.Streams[i].CodecType = "audio" }

\* every audio stream has a language tag, and no two have the same one
DifferentLangs ==
  /\ \A i \in AudioStreams : "language" \in DOMAIN probe.Streams[i].Tags
  /\ \A i, j \in AudioStreams :
       i # j => probe.Streams[i].Tags # probe.Streams[j].Tags

\* Identify returned the audio stream at place j
ReturnedAudio(j) ==
  /\ ident.info.AudioIndex = probe.Streams[j].Index
  /\ ident.info.AudioCodec = probe.Streams[j].CodecName
  /\ ident.info.AudioLang = probe.lang

\* C25 as stated: with one video stream and audio streams tagged with
\* different languages, Identify returns the audio stream whose language is
\* the preferred one, wherever it is among the streams.
C25_PreferredAudioAnyCodec ==
  (ident.at # "none" /\ ident.err = NilErr /\ DifferentLangs) =>
    \A j \in AudioStreams :
      probe.Streams[j].Tags["language"] = probe.lang => ReturnedAudio(j)

\* C25: with one video stream and audio streams tagged with different
\* languages, Identify returns the audio stream whose language is the
\* preferred one, wherever it is among the streams and whatever streams
\* follow it, when that stream has a codec name.
C25_PreferredAudio ==
  (ident.at # "none" /\ ident.err = NilErr /\ DifferentLangs) =>
    \A j \in AudioStreams :
      (/\ probe.Streams[j].Tags["language"] = probe.lang
       /\ probe.Streams[j].CodecName # "") => ReturnedAudio(j)

\* the preferred language is that of the first of two audio streams
C25_Witness ==
  /\ ident.at = "Identify"
  /\ ident.err = NilErr
  /\ Len(probe.Streams) = 3
  /\ probe.Streams[1].CodecType = "video"
  /\ AudioStreams = {2, 3}
  /\ DifferentLangs
  /\ probe.lang = "fre"
  /\ probe.Streams[2].Tags["language"] = "fre"
  /\ ident.info.AudioLang = "fre"
  /\ ident.info.AudioIndex = 1

\* C26: whatever ffprobe printed, Identify, Entry.Percent and the worker
\* return a value or an error: none of them indexes a slice out of its range
\* or dereferences nil.
C26_NoFault == ~ident.fault

-----------------------------------------------------------------------------
(* Device.Transcode: the arguments handed to ffmpeg *)

WEBPWebPreview == 4
AllDevices == Devices \cup {WEBPWebPreview}

\* codec names ffprobe reports, among them some of the default branches
VideoCodecs == {"mpeg1video", "mpeg2video", "h264", "vp8", "h265", "mpeg4", "wmv1"}
AudioCodecs == {"ac3", "aac", "mp2", "mp3", "dts", ""}
AudioLangs == {"", "und", "eng"}

\* variant: h265 is taken as played by every device
supportedVideo_h265(d, codec) ==
  IF d = WEBPWebPreview THEN FALSE
  ELSE codec \in {"mpeg1video", "mpeg2video", "h264", "vp8", "h265"}

\* Device.supportedVideo
supportedVideo(d, codec) ==
  IF d = WEBPWebPreview THEN FALSE
  ELSE CASE codec \in {"mpeg1video", "mpeg2video", "h264"} -> TRUE
         [] codec = "vp8" -> TRUE
         [] codec = "h265" -> d = ChromeCastUltra
         [] OTHER -> FALSE

\* Device.supportedAudio
supportedAudio(d, codec) ==
  IF d = WEBPWebPreview THEN TRUE
  ELSE CASE codec = "ac3" -> d # ChromeOS
         [] codec \in {"aac", "mp2", "mp3"} -> TRUE
         [] OTHER -> FALSE

\* Device.Transcode: args up to the video options
transcodeHead(d, src, v) ==
  LET c == IF d = WEBPWebPreview THEN "webp" ELSE "mp4"
  IN <<"-i", src, "-f", c>>
     \o (IF c = "mp4"
         THEN <<"-movflags", "+faststart",
                "-map", "0:" \o ToString(v.VideoIndex),
                "-map", "0:" \o ToString(v.AudioIndex)>>
         ELSE <<>>)

\* Device.Transcode: the video options
transcodeVideo(d, v) ==
  IF d = WEBPWebPreview
  THEN <<"-itsoffset", "1:00", "-itsscale", "2", "-t", "30",
         "-vcodec", "libwebp", "-filter:v", "fps=fps=2",
         "-lossless", "0", "-compression_level", "3", "-loop", "1",
         "-s", "320:-1">>
  ELSE IF supportedVideo(d, v.VideoCodec) THEN <<"-c:v", "copy">>
  ELSE <<"-c:v", "h264">>
       \o (CASE d \in {ChromeCast, ChromeCastUltra} ->
                  <<"-preset", "faster", "-crf", "21", "-level", "4.1",
                    "-pix_fmt", "yuv420p">>
              [] d = ChromeOS -> <<"-preset", "slow", "-crf", "21">>
              [] OTHER -> <<>>)

\* Device.Transcode: the audio options
transcodeAudio(d, v) ==
  IF d = WEBPWebPreview THEN <<"-an">>
  ELSE IF supportedAudio(d, v.AudioCodec) THEN <<"-c:a", "copy">>
  ELSE <<"-c:a", "aac">>

\* Device.Transcode: the arguments of ffmpeg.Transcode
transcodeArgs(d, src, dst, v) ==
  transcodeHead(d, src, v) \o transcodeVideo(d, v) \o transcodeAudio(d, v)
    \o (IF v.AudioLang \in {"", "und"} THEN <<>>
        ELSE <<"-metadata:s:a:0", "language=" \o v.AudioLang>>)
    \o <<dst>>

\* an Info as Identify returns it, for a file of the video codec vc and the
\* audio codec ac
InitTranscode ==
  /\ tree = EmptyDir
  /\ entries = EmptyMap
  /\ nextId = 1
  /\ updatingInfos = TRUE
  /\ disk = {}
  /\ cacheFiles = {}
  /\ created = 0
  /\ probe = [Streams |-> <<>>, lang |-> ""]
  /\ \E vc \in VideoCodecs, ac \in AudioCodecs, l \in AudioLangs :
       ident = [at |-> "Identify",
                info |-> [VideoIndex |-> 0, VideoCodec |-> vc, AudioIndex |-> 1,
                          AudioCodec |-> ac, AudioLang |-> l, Raw |-> <<>>],
                err |-> NilErr, ret |-> <<>>, fault |-> FALSE, d |-> 0]
  /\ NoLocks /\ NoWalk /\ NoAdd /\ NoLookup /\ NoPath /\ NoInfo
  /\ NoCrawl /\ NoQueue /\ NoRefresh /\ NoPreload

\* d.Transcode(src, dst, v, progress) up to the call of ffmpeg.Transcode
CallTranscode(d) ==
  /\ ident.at = "Identify"
  /\ ident' = [ident EXCEPT !.at = "Transcode", !.d = d,
                            !.ret = transcodeArgs(d, "src", "dst", ident.info)]
  /\ IdentFrame

NextTranscode == \E d \in AllDevices : CallTranscode(d)

SpecTranscode == InitTranscode /\ [][NextTranscode]_vars

\* the option a with the value b is among the arguments
HasOption(args, a, b) ==
  \E i \in 1..(Len(args) - 1) : args[i] = a /\ args[i + 1] = b

\* the arguments name no codec for the streams of the kind k ("v" or "a")
NoCodec(args, k) == \A i \in 1..Len(args) : args[i] # "-c:" \o k

\* C35: for a device other than the preview, the arguments copy the video
\* stream exactly when supportedVideo accepts its codec (h265 on
\* ChromeCastUltra only) and encode it as H.264 otherwise, and they copy the
\* audio stream exactly when supportedAudio accepts its codec (ac3 on the two
\* ChromeCasts, not on ChromeOS) and encode it as AAC otherwise; for the
\* preview the video is encoded and there is no audio.
C35_CopyIffSupported ==
  ident.at = "Transcode" =>
    IF ident.d = WEBPWebPreview
    THEN /\ HasOption(ident.ret, "-vcodec", "libwebp")
         /\ NoCodec(ident.ret, "v") /\ NoCodec(ident.ret, "a")
         /\ \E i \in 1..Len(ident.ret) : ident.ret[i] = "-an"
    ELSE /\ HasOption(ident.ret, "-c:v", "copy")
              <=> supportedVideo(ident.d, ident.info.VideoCodec)
         /\ HasOption(ident.ret, "-c:v", "h264")
              <=> ~supportedVideo(ident.d, ident.info.VideoCodec)
         /\ HasOption(ident.ret, "-c:a", "copy")
              <=> supportedAudio(ident.d, ident.info.AudioCodec)
         /\ HasOption(ident.ret, "-c:a", "aac")
              <=> ~supportedAudio(ident.d, ident.info.AudioCodec)
         /\ \A i \in 1..Len(ident.ret) : ident.ret[i] # "-an"
         /\ ident.info.VideoCodec = "h265" =>
              (HasOption(ident.ret, "-c:v", "copy") <=> ident.d = ChromeCastUltra)
         /\ ident.info.AudioCodec = "ac3" =>
              (HasOption(ident.ret, "-c:a", "copy") <=> ident.d # ChromeOS)

\* an h265 video with dts audio for ChromeCastUltra: the video is copied and
\* the audio encoded
C35_Witness ==
  /\ ident.at = "Transcode"
  /\ ident.d = ChromeCastUltra
  /\ ident.info.VideoCodec = "h265"
  /\ ident.info.AudioCodec = "dts"
  /\ HasOption(ident.ret, "-c:v", "copy")
  /\ HasOption(ident.ret, "-c:a", "aac")

-----------------------------------------------------------------------------
(* The locks: catalog.mu, Entry.mu, transcodingQueue.mu and crawler.mu *)

LockThreads == {"serveBrowse", "doTranscode", "enumerateEntries",
                "preloadInfos", "run", "progress", "Close"}

L(m) == <<[op |-> "Lock", mu |-> m], [op |-> "Unlock", mu |-> m]>>
R(m) == <<[op |-> "RLock", mu |-> m], [op |-> "RUnlock", mu |-> m]>>

\* an external process runs: ffprobe in vid.Identify, ffmpeg in TranscodeMP4
X(p) == <<[op |-> p, mu |-> "none"]>>

\* Entry.Info of an Entry not yet probed: vid.Identify between e.mu.Lock()
\* and the deferred e.mu.Unlock()
InfoLocks(e) ==
  <<[op |-> "Lock", mu |-> e]>> \o X("Identify") \o <<[op |-> "Unlock", mu |-> e]>>

\* variant: the Entry is probed inside findEntryToPreload
preloadLocks_probeInside(e) ==
  L("crawler") \o <<[op |-> "RLock", mu |-> "catalog"]>> \o X("Identify")
    \o <<[op |-> "RUnlock", mu |-> "catalog"]>> \o L("crawler")

\* crawler.preloadInfos, one Entry e to probe: the stamp under c.mu,
\* findEntryToPreload, e.Info(), and updatingInfos under c.mu
preloadLocks(e) ==
  L("crawler") \o R("catalog") \o InfoLocks(e) \o L("crawler")

\* variant: run releases the lock of the queue after it has set the flags of
\* the Entry
runLocks_nested(e) ==
  L(e) \o <<[op |-> "Lock", mu |-> "queue"], [op |-> "TranscodeMP4", mu |-> "none"]>>
    \o L(e) \o <<[op |-> "Unlock", mu |-> "queue"]>>

\* transcodingQueue.run, one request for the Entry e: r.e.Info(), TranscodeMP4
\* between t.mu.Lock() and t.mu.Unlock(), then the flags under r.e.mu
runLocks(e) ==
  InfoLocks(e) \o <<[op |-> "Lock", mu |-> "queue"]>> \o X("TranscodeMP4")
    \o <<[op |-> "Unlock", mu |-> "queue"]>> \o L(e)

\* the lock operations of each thread, in the order of its code, all on one
\* Entry:
\*   serveBrowse       LookupDir, then StillLoading calls IsTranscoding
\*   doTranscode       LookupEntry, IsCached, IsTranscoding, Info, Transcode
\*   enumerateEntries  resetCold, addFile, trimCold, then the watched
\*                     directories under the lock of the crawler
\*   preloadInfos      the stamp, findEntryToPreload, Info, updatingInfos
\*   run               Info, TranscodeMP4 under the lock of the queue, the flags
\*   progress          the callback p of run
\*   Close             of the queue
Script(th) ==
  CASE th = "serveBrowse" -> R("catalog") \o L("entry")
    [] th = "doTranscode" ->
         R("catalog") \o L("entry") \o L("entry") \o InfoLocks("entry")
           \o L("entry")
    [] th = "enumerateEntries" ->
         L("catalog") \o L("catalog") \o L("catalog") \o L("crawler")
    [] th = "preloadInfos" -> preloadLocks("entry")
    [] th = "run" -> runLocks("entry")
    [] th = "progress" -> L("entry")
    [] th = "Close" -> L("queue")

\* the operations the thread has done
Done(th) == SubSeq(Script(th), 1, lockAt[th] - 1)

\* the locks the thread holds, each with the way it was taken
Held(th) ==
  { d \in Range(Done(th)) :
      /\ d.op \in {"Lock", "RLock"}
      /\ \E k \in 1..Len(Done(th)) :
           /\ Done(th)[k] = d
           /\ \A n \in (k+1)..Len(Done(th)) : Done(th)[n].mu # d.mu }

\* the operation the thread is to do next may be done now: sync.Mutex and
\* the writer side of sync.RWMutex need the lock free, the reader side
\* needs it free of a writer
Free(o) ==
  CASE o.op = "Lock" -> \A u \in LockThreads : \A h \in Held(u) : h.mu # o.mu
    [] o.op = "RLock" ->
         \A u \in LockThreads : \A h \in Held(u) : h.mu = o.mu => h.op = "RLock"
    [] OTHER -> TRUE

InitLocks ==
  /\ tree = EmptyDir
  /\ entries = EmptyMap
  /\ nextId = 1
  /\ updatingInfos = TRUE
  /\ disk = {}
  /\ cacheFiles = {}
  /\ created = 0
  /\ lockAt = [th \in LockThreads |-> 1]
  /\ NoIdentify /\ NoWalk /\ NoAdd /\ NoLookup /\ NoPath /\ NoInfo
  /\ NoCrawl /\ NoQueue /\ NoRefresh /\ NoPreload

\* a thread does its next lock operation; the callback p is called by the
\* encoder, which runs while run holds the lock of the queue
LockStep(th) ==
  /\ lockAt[th] <= Len(Script(th))
  /\ Free(Script(th)[lockAt[th]])
  /\ th = "progress" => \E h \in Held("run") : h.mu = "queue"
  /\ lockAt' = [lockAt EXCEPT ![th] = @ + 1]
  /\ UNCHANGED <<catalogVars, disk, cacheFiles, walkVars, created, firstAdd,
                 addCalls, lookupVars, pathVars, identVars, infoVars,
                 serviceVars>>

NextLocks == \E th \in LockThreads : LockStep(th)

SpecLocks == InitLocks /\ [][NextLocks]_vars

\* the order of the locks
LockRank(m) ==
  CASE m = "catalog" -> 1 [] m = "entry" -> 2 [] m = "queue" -> 3

\* the thread is to take a lock that another thread keeps from it
Waits(th) ==
  /\ lockAt[th] <= Len(Script(th))
  /\ th = "progress" => \E h \in Held("run") : h.mu = "queue"
  /\ ~Free(Script(th)[lockAt[th]])

\* the threads of S whose lock is held by a thread of S, with held the locks
\* each thread holds
Stuck(S, held) ==
  { th \in S :
      \A u \in LockThreads :
        (\E h \in held[u] : h.mu = Script(th)[lockAt[th]].mu) => u \in S }

\* the threads that wait on each other's locks: what is left of the waiting
\* threads when those waiting for a thread outside are taken away, again
\* and again
RECURSIVE Deadlocked(_, _)
Deadlocked(S, held) ==
  IF Stuck(S, held) = S THEN S ELSE Deadlocked(Stuck(S, held), held)

\* C29: a thread that is to take the lock of the catalog holds no lock of an
\* Entry and not the lock of the queue, a thread that is to take the lock
\* of an Entry does not hold the lock of the queue, and there is no set of
\* threads each waiting for a lock held inside the set.
C29_LockOrder ==
  \E held \in {[th \in LockThreads |-> Held(th)]} :
    /\ \A th \in LockThreads :
         lockAt[th] <= Len(Script(th)) =>
           LET o == Script(th)[lockAt[th]]
           IN (o.op \in {"Lock", "RLock"} /\ o.mu # "crawler") =>
                \A h \in held[th] :
                  h.mu # "crawler" => LockRank(h.mu) < LockRank(o.mu)
    /\ Deadlocked({ th \in LockThreads : Waits(th) }, held) = {}

\* run holds the lock of the queue and Close waits for it, the callback p
\* holds the lock of the Entry and doTranscode waits for it
C29_Witness ==
  /\ \E h \in Held("run") : h.mu = "queue"
  /\ Waits("Close")
  /\ \E h \in Held("progress") : h.mu = "entry"
  /\ Waits("doTranscode")
  /\ Script("doTranscode")[lockAt["doTranscode"]].mu = "entry"

\* the thread has started the external process p, which has not ended
Running(th, p) ==
  /\ lockAt[th] <= Len(Script(th))
  /\ Script(th)[lockAt[th]].op = p

\* C32: a thread whose external probe or external encoder is running does
\* not hold the lock of the catalog, for reading or for writing.
C32_NoCatalogLockWhileExternal ==
  \A th \in LockThreads :
    (Running(th, "Identify") \/ Running(th, "TranscodeMP4")) =>
      \A h \in Held(th) : h.mu # "catalog"

\* the probe of preloadInfos and the encoder of run are running, and the
\* enumeration holds the lock of the catalog
C32_Witness ==
  /\ Running("preloadInfos", "Identify")
  /\ Running("run", "TranscodeMP4")
  /\ \E h \in Held("enumerateEntries") : h.mu = "catalog"

\* C40: IsCached, IsTranscoding, StillLoading and the callback p never wait
\* for a probe of the Entry to end: no thread whose probe is running holds
\* the lock of the Entry that one of them is waiting for.
C40_NoWaitForProbe ==
  \A th \in LockThreads :
    Running(th, "Identify") =>
      \A u \in {"serveBrowse", "doTranscode", "progress"} :
        Waits(u) =>
          \A h \in Held(th) : h.mu # Script(u)[lockAt[u]].mu

====
